---- MODULE Spec2Model ----
(***************************************************************************)
(* State-machine model of the MITS-Cloudy storage application:             *)
(* the content tree (folders, files), the visibility cascade, soft delete  *)
(* and restore, share links and their resolvers, and academic sessions.    *)
(* Every action is one request handler of storage/views.py or one admin    *)
(* action of storage/admin.py, translated from its code.                   *)
(***************************************************************************)
EXTENDS Integers, Sequences, FiniteSets, TLC

VARIABLES users, sessions, folders, files, links, audit, now, last, procs

vars == <<users, sessions, folders, files, links, audit, now, last, procs>>

\* ------------------------------------------------------------------ bounds
MaxFolders == 3
MaxFiles == 1
MaxLinks == 2
MaxSessions == 2
MaxTime == 2
MaxCount == 3
MaxProcs == 2

\* Days added by the admin action "Extend expiry by 30 days".
ExtendDays == 30

FolderIds == 1..MaxFolders
FileIds == 1..MaxFiles
LinkIds == 1..MaxLinks
SessionIds == 1..MaxSessions

\* Python None for a foreign key (ids start at 1) and for a datetime.
NoId == 0
NoTime == -1
NoCount == -1
NoUser == "none"
\* request.user of a request without credentials (AnonymousUser).
Anonymous == "anonymous"

UserNames == {"admin", "faculty", "student"}

\* ----------------------------------------------------------- string helpers
\* str.lower() on the strings the model uses.
Lower(s) ==
    CASE s = "TRUE" -> "true"
      [] s = "F@MITS.IN" -> "f@mits.in"
      [] s = "P@SS" -> "p@ss"
      [] OTHER -> s

\* str(request.data.get('is_public', '')).lower() in ('1','true','yes','on')
ParseBool(raw) == Lower(raw) \in {"1", "true", "yes", "on"}

\* The raw request values of is_public the model submits.
RawBools == {"true", "TRUE", "false", ""}

\* ------------------------------------------------------------------- rows
NoFolder ==
    [exists |-> FALSE, parent |-> NoId, owner |-> NoUser, session |-> NoId,
     is_public |-> FALSE, is_deleted |-> FALSE, deleted_at |-> NoTime,
     deleted_by |-> NoUser]

\* blob tells whether the storage holds the blob uploaded for the file id,
\* which it may still do when the row is gone.
NoFile ==
    [exists |-> FALSE, folder |-> NoId, owner |-> NoUser, session |-> NoId,
     is_public |-> FALSE, is_deleted |-> FALSE, deleted_at |-> NoTime,
     deleted_by |-> NoUser, blob |-> FALSE]

\* email = None of a link; request.GET.get('password') = None of a request.
NoEmail == "None"
NoPassword == "None"

NoLink ==
    [exists |-> FALSE, file_item |-> NoId, folder |-> NoId,
     share_type |-> "public", created_by |-> NoUser, expires_at |-> NoTime,
     email |-> NoEmail, password |-> "", max_downloads |-> NoCount,
     download_count |-> 0, is_active |-> FALSE]

NoSession == [exists |-> FALSE, is_active |-> FALSE]

\* The requests that run at the same time as others: each is at "idle",
\* holds the row it read ("loaded"), or has answered ("done").
ProcIds == 1..MaxProcs

IdleProc ==
    [pc |-> "idle", op |-> "none", actor |-> NoUser, password |-> NoPassword,
     is_public |-> FALSE, target |-> NoId, link |-> NoLink, folder |-> NoFolder,
     at |-> NoTime, outcome |-> "none"]

NoProcs == [p \in ProcIds |-> IdleProc]

\* The response body that shows no file and no folder.
NoContent == {}

\* The last request and its response: the handler, request.user, the parsed
\* is_public of the request, the row it was about, the HTTP status, the kind
\* of outcome and the files and folders the response shows, as a set of
\* <<kind, id>> pairs.
Resp(op, actor, is_public, target, status, outcome, content) ==
    [op |-> op, actor |-> actor, is_public |-> is_public, target |-> target, status |-> status, outcome |-> outcome,
     content |-> content]

NoResp == Resp("none", NoUser, FALSE, NoId, 0, "none", NoContent)

\* --------------------------------------------------------------- identity
IsStaff(u) == u \in UserNames /\ users[u].is_staff
IsSuperuser(u) == u \in UserNames /\ users[u].is_superuser
IsAuthenticated(u) == u \in UserNames
\* bool(getattr(request.user.profile, 'is_faculty', False))
IsFaculty(u) == u \in UserNames /\ users[u].is_faculty
EmailOf(u) == users[u].email

InitUsers ==
    [u \in UserNames |->
        CASE u = "admin" ->
               [is_staff |-> TRUE, is_superuser |-> TRUE, is_faculty |-> FALSE,
                email |-> "a@mits.in",
                active_session_override |-> NoId]
          [] u = "faculty" ->
               [is_staff |-> FALSE, is_superuser |-> FALSE, is_faculty |-> TRUE,
                email |-> "f@mits.in",
                active_session_override |-> NoId]
          [] OTHER ->
               [is_staff |-> FALSE, is_superuser |-> FALSE, is_faculty |-> FALSE,
                email |-> "s@mits.in",
                active_session_override |-> NoId]]

\* --------------------------------------------------------------- sessions
\* AcademicSession.objects.filter(is_active=True).first() under the model's
\* ordering ['-is_active', '-year']: the active session of the highest year
\* (the model takes the id for the year).
ActiveSessions == {s \in SessionIds : sessions[s].exists /\ sessions[s].is_active}

GlobalActiveSession ==
    IF ActiveSessions = {} THEN NoId
    ELSE CHOOSE s \in ActiveSessions : \A t \in ActiveSessions : t <= s

\* UserProfile.get_active_session / Department.get_active_session: the
\* active_session_override of the user's department when it is set (a user
\* row carries the override of its department), the global active session
\* otherwise.
GetActiveSession(u) ==
    IF users[u].active_session_override # NoId
    THEN users[u].active_session_override
    ELSE GlobalActiveSession

\* ------------------------------------------------------------ content tree
ExistingFolders == {f \in FolderIds : folders[f].exists}
ExistingFiles == {f \in FileIds : files[f].exists}

\* Folder.objects.filter(parent=f) / folder.children.all()
Children(fs, f) == {c \in FolderIds : fs[c].exists /\ fs[c].parent = f}
\* FileItem.objects.filter(folder=f) / folder.files.all()
FilesIn(fl, f) == {x \in FileIds : fl[x].exists /\ fl[x].folder = f}

MinOf(S) == CHOOSE x \in S : \A y \in S : x <= y

\* A queryset listed in primary-key order, as a sequence.
RECURSIVE InOrder(_)
InOrder(S) == IF S = {} THEN <<>> ELSE <<MinOf(S)>> \o InOrder(S \ {MinOf(S)})

\* The folders below f by the parent relation (f excluded unless on a cycle).
RECURSIVE DescendantsUpTo(_, _, _)
DescendantsUpTo(fs, S, n) ==
    IF n = 0 THEN S
    ELSE DescendantsUpTo(fs, S \cup UNION {Children(fs, c) : c \in S}, n - 1)

Subtree(fs, f) == DescendantsUpTo(fs, {f}, MaxFolders)
SubtreeFiles(fs, fl, f) == UNION {FilesIn(fl, g) : g \in Subtree(fs, f)}

\* ------------------------------------------------------ visibility (views)
\* A role check that forgets the owner when an item is made private.
FileVisibilityAllowedNoOwner(actor, owner, is_public) ==
    IF is_public
    THEN IsStaff(actor) \/ (owner = actor /\ IsFaculty(actor))
    ELSE TRUE

\* file_toggle_visibility: the role check on the parsed is_public.
FileVisibilityAllowed(actor, owner, is_public) ==
    IF is_public
    THEN IsStaff(actor) \/ (owner = actor /\ IsFaculty(actor))
    ELSE IsStaff(actor) \/ owner = actor

\* folder_toggle_visibility: the same check, written out a second time there.
FolderVisibilityAllowed(actor, owner, is_public) ==
    IF is_public
    THEN IsStaff(actor) \/ (owner = actor /\ IsFaculty(actor))
    ELSE IsStaff(actor) \/ owner = actor

\* Not the program: every save flips the flag instead of setting it.
SetFilesVisibilityFlip(fl, S, is_public) ==
    [x \in FileIds |-> IF x \in S THEN [fl[x] EXCEPT !.is_public = ~@] ELSE fl[x]]

\* for f in folder.files.all(): f.is_public = is_public; f.save()
SetFilesVisibility(fl, S, is_public) ==
    [x \in FileIds |-> IF x \in S THEN [fl[x] EXCEPT !.is_public = is_public] ELSE fl[x]]

\* Python's recursion limit, as the depth no tree of the model reaches.
RecursionLimit == MaxFolders + 1

\* A cascade that stops at the folder's own files.
SetFolderVisibilityShallow(fs, fl, f, is_public, depth) ==
    [folders |-> [fs EXCEPT ![f].is_public = is_public],
     files |-> SetFilesVisibility(fl, FilesIn(fl, f), is_public),
     ok |-> TRUE]

\* _set_folder_visibility_recursive: the folder, then its files, then each
\* child in turn, depth first.  `depth` counts the frames left; running out
\* of them is Python's RecursionError, which leaves what was saved so far.
RECURSIVE SetFolderVisibilityRecursive(_, _, _, _, _)
RECURSIVE SetChildrenVisibility(_, _, _, _, _)
SetFolderVisibilityRecursive(fs, fl, f, is_public, depth) ==
    IF depth = 0 THEN [folders |-> fs, files |-> fl, ok |-> FALSE]
    ELSE LET fs1 == [fs EXCEPT ![f].is_public = is_public]
             fl1 == SetFilesVisibility(fl, FilesIn(fl, f), is_public)
         IN SetChildrenVisibility(fs1, fl1, InOrder(Children(fs1, f)), is_public, depth)

SetChildrenVisibility(fs, fl, chs, is_public, depth) ==
    IF chs = <<>> THEN [folders |-> fs, files |-> fl, ok |-> TRUE]
    ELSE LET r == SetFolderVisibilityRecursive(fs, fl, Head(chs), is_public, depth - 1)
         IN IF r.ok THEN SetChildrenVisibility(r.folders, r.files, Tail(chs), is_public, depth)
            ELSE r

\* POST /api/files/<pk>/visibility/
FileToggleVisibility(actor, pk, raw) ==
    LET is_public == ParseBool(raw) IN
    /\ UNCHANGED <<procs, users, sessions, folders, links, audit, now>>
    /\ IF ~files[pk].exists
       THEN /\ files' = files
            /\ last' = Resp("file_toggle_visibility", actor, ParseBool(raw), pk, 404, "not_found", NoContent)
       ELSE IF ~FileVisibilityAllowed(actor, files[pk].owner, is_public)
       THEN /\ files' = files
            /\ last' = Resp("file_toggle_visibility", actor, ParseBool(raw), pk, 403, "forbidden", NoContent)
       ELSE /\ files' = [files EXCEPT ![pk].is_public = is_public]
            /\ last' = Resp("file_toggle_visibility", actor, ParseBool(raw), pk, 200, "ok", NoContent)

\* POST /api/folders/<pk>/visibility/
FolderToggleVisibility(actor, pk, raw) ==
    LET is_public == ParseBool(raw) IN
    /\ UNCHANGED <<procs, users, sessions, links, audit, now>>
    /\ IF ~folders[pk].exists
       THEN /\ UNCHANGED <<folders, files>>
            /\ last' = Resp("folder_toggle_visibility", actor, ParseBool(raw), pk, 404, "not_found", NoContent)
       ELSE IF ~FolderVisibilityAllowed(actor, folders[pk].owner, is_public)
       THEN /\ UNCHANGED <<folders, files>>
            /\ last' = Resp("folder_toggle_visibility", actor, ParseBool(raw), pk, 403, "forbidden", NoContent)
       ELSE LET r == SetFolderVisibilityRecursive(folders, files, pk, is_public, RecursionLimit)
            IN /\ folders' = r.folders
               /\ files' = r.files
               /\ last' = IF r.ok
                          THEN Resp("folder_toggle_visibility", actor, ParseBool(raw), pk, 200, "ok", NoContent)
                          ELSE Resp("folder_toggle_visibility", actor, ParseBool(raw), pk, 500, "error", NoContent)

\* ---------------------------------------------------------------- audit log
\* FileAuditLog.objects.create(file_item=..., user=..., action=...): the log
\* is kept as the set of its rows (file, user, action).
AuditRow(file_item, user, action) ==
    [file_item |-> file_item, user |-> user, action |-> action]

\* ----------------------------------------------------------------- creation
\* The id the database gives the next row of a table.
NextId(exist) == Cardinality(exist) + 1

\* perform_create of both list-create views: the visibility of a new root row.
RootVisibility(actor, is_public_requested) ==
    IF is_public_requested
    THEN (IF ~(IsStaff(actor) \/ IsFaculty(actor)) THEN FALSE ELSE TRUE)
    ELSE FALSE

\* A creation that takes the requested visibility whatever the parent's.
NewFolderVisibilityRequested(actor, parent, is_public_requested) ==
    RootVisibility(actor, is_public_requested)

\* FolderListCreateAPI.perform_create: a child takes its parent's visibility.
NewFolderVisibility(actor, parent, is_public_requested) ==
    IF parent # NoId THEN folders[parent].is_public
    ELSE RootVisibility(actor, is_public_requested)

\* FileListCreateAPI.perform_create: a file takes its folder's visibility.
NewFileVisibility(actor, folder, is_public_requested) ==
    IF folder # NoId THEN folders[folder].is_public
    ELSE RootVisibility(actor, is_public_requested)

\* FolderSerializer.validate / FileItemSerializer.validate on a create:
\* a session named in the request must be active unless the user is staff.
SessionAllowed(actor, session) ==
    ~(session # NoId /\ ~sessions[session].is_active /\ ~IsStaff(actor))

\* POST /api/folders/  (parent, session and is_public of the request)
FolderCreate(actor, parent, session, raw) ==
    LET pk == NextId(ExistingFolders)
        is_public == NewFolderVisibility(actor, parent, ParseBool(raw))
        \* serializer.save(session=profile.get_active_session(), ...), then
        \* FolderSerializer.create fills a missing session from the parent.
        s0 == GetActiveSession(actor)
        s1 == IF parent # NoId /\ s0 = NoId THEN folders[parent].session ELSE s0
    IN
    /\ pk \in FolderIds
    /\ UNCHANGED <<procs, users, sessions, files, links, audit, now>>
    /\ IF \/ (parent # NoId /\ ~folders[parent].exists)
          \/ (session # NoId /\ ~sessions[session].exists)
          \/ ~SessionAllowed(actor, session)
       THEN /\ folders' = folders
            /\ last' = Resp("folder_create", actor, ParseBool(raw), NoId, 400, "invalid", NoContent)
       ELSE IF s1 = NoId
       THEN \* session is NOT NULL: the insert raises IntegrityError
            /\ folders' = folders
            /\ last' = Resp("folder_create", actor, ParseBool(raw), NoId, 500, "error", NoContent)
       ELSE /\ folders' = [folders EXCEPT ![pk] =
                   [exists |-> TRUE, parent |-> parent, owner |-> actor, session |-> s1,
                    is_public |-> is_public, is_deleted |-> FALSE, deleted_at |-> NoTime,
                    deleted_by |-> NoUser]]
            /\ last' = Resp("folder_create", actor, ParseBool(raw), pk, 201, "ok", NoContent)

\* POST /api/files/  (folder, session and is_public of the request)
FileUpload(actor, folder, session, raw) ==
    LET pk == NextId(ExistingFiles)
        is_public == NewFileVisibility(actor, folder, ParseBool(raw))
        s1 == IF session # NoId THEN session ELSE GetActiveSession(actor)
    IN
    /\ pk \in FileIds
    /\ UNCHANGED <<procs, users, sessions, folders, links, now>>
    /\ IF \/ (folder # NoId /\ ~folders[folder].exists)
          \/ (session # NoId /\ ~sessions[session].exists)
          \/ ~SessionAllowed(actor, session)
       THEN /\ UNCHANGED <<files, audit>>
            /\ last' = Resp("file_upload", actor, ParseBool(raw), NoId, 400, "invalid", NoContent)
       ELSE IF s1 = NoId
       THEN /\ UNCHANGED <<files, audit>>
            /\ last' = Resp("file_upload", actor, ParseBool(raw), NoId, 500, "error", NoContent)
       ELSE /\ files' = [files EXCEPT ![pk] =
                   [exists |-> TRUE, folder |-> folder, owner |-> actor, session |-> s1,
                    is_public |-> is_public, is_deleted |-> FALSE, deleted_at |-> NoTime,
                    deleted_by |-> NoUser, blob |-> TRUE]]
            /\ audit' = audit \cup {AuditRow(pk, actor, "upload")}
            /\ last' = Resp("file_upload", actor, ParseBool(raw), pk, 201, "ok", NoContent)

\* ------------------------------------------------- soft delete and restore
\* iter_descendants: a stack of pending folders and a set of seen ids; the
\* folders in the order they are yielded.
RECURSIVE IterDescendants(_, _, _, _)
IterDescendants(fs, pending, seen, out) ==
    IF pending = <<>> THEN out
    ELSE LET f == pending[Len(pending)]
             rest == SubSeq(pending, 1, Len(pending) - 1)
         IN IF f \in seen THEN IterDescendants(fs, rest, seen, out)
            ELSE IterDescendants(fs, rest \o InOrder(Children(fs, f)),
                                 seen \cup {f}, Append(out, f))

\* A walk that visits the root alone.
WalkRootOnly(fs, root) == <<root>>

Walk(fs, root) == IterDescendants(fs, <<root>>, {}, <<>>)

SeqRange(q) == {q[i] : i \in 1..Len(q)}

\* FolderDetailAPI.destroy, the loop body over the yielded folders:
\* the folder row, then the files of it that are not deleted yet.
SoftDeleteFolders(fs, S, at, by) ==
    [f \in FolderIds |->
        IF f \in S
        THEN [fs[f] EXCEPT !.is_deleted = TRUE, !.deleted_at = at, !.deleted_by = by]
        ELSE fs[f]]

SoftDeleteFiles(fs, fl, S, at, by) ==
    [x \in FileIds |->
        IF fl[x].exists /\ fl[x].folder \in S /\ ~fl[x].is_deleted
        THEN [fl[x] EXCEPT !.is_deleted = TRUE, !.deleted_at = at, !.deleted_by = by]
        ELSE fl[x]]

\* ShareLink.objects.filter(folder=folder).update(is_active=False)
\* A folder delete that leaves the links of the folder alone.
DeactivateFolderLinksNone(ls, folder) == ls

DeactivateFolderLinks(ls, folder) ==
    [l \in LinkIds |->
        IF ls[l].exists /\ ls[l].folder = folder
        THEN [ls[l] EXCEPT !.is_active = FALSE] ELSE ls[l]]

\* ShareLink.objects.filter(file_item=item).update(is_active=False)
DeactivateFileLinks(ls, item) ==
    [l \in LinkIds |->
        IF ls[l].exists /\ ls[l].file_item = item
        THEN [ls[l] EXCEPT !.is_active = FALSE] ELSE ls[l]]

\* The rule of both destroy handlers: staff, or the owner of the row.
MayDelete(actor, owner) == IsStaff(actor) \/ owner = actor

\* DELETE /api/folders/<pk>/
FolderDestroy(actor, pk) ==
    /\ UNCHANGED <<procs, users, sessions, audit, now>>
    /\ IF ~(folders[pk].exists /\ ~folders[pk].is_deleted)
       THEN /\ UNCHANGED <<folders, files, links>>
            /\ last' = Resp("folder_destroy", actor, FALSE, pk, 404, "not_found", NoContent)
       ELSE IF ~MayDelete(actor, folders[pk].owner)
       THEN /\ UNCHANGED <<folders, files, links>>
            /\ last' = Resp("folder_destroy", actor, FALSE, pk, 403, "forbidden", NoContent)
       ELSE LET S == SeqRange(Walk(folders, pk)) IN
            /\ folders' = SoftDeleteFolders(folders, S, now, actor)
            /\ files' = SoftDeleteFiles(folders, files, S, now, actor)
            /\ links' = DeactivateFolderLinks(links, pk)
            /\ last' = Resp("folder_destroy", actor, FALSE, pk, 204, "ok", NoContent)

\* DELETE /api/files/<pk>/
FileDestroy(actor, pk) ==
    /\ UNCHANGED <<procs, users, sessions, folders, now>>
    /\ IF ~(files[pk].exists /\ ~files[pk].is_deleted)
       THEN /\ UNCHANGED <<files, links, audit>>
            /\ last' = Resp("file_destroy", actor, FALSE, pk, 404, "not_found", NoContent)
       ELSE IF ~MayDelete(actor, files[pk].owner)
       THEN /\ UNCHANGED <<files, links, audit>>
            /\ last' = Resp("file_destroy", actor, FALSE, pk, 403, "forbidden", NoContent)
       ELSE /\ files' = [files EXCEPT ![pk].is_deleted = TRUE, ![pk].deleted_at = now,
                                      ![pk].deleted_by = actor]
            /\ links' = DeactivateFileLinks(links, pk)
            /\ audit' = audit \cup {AuditRow(pk, actor, "delete")}
            /\ last' = Resp("file_destroy", actor, FALSE, pk, 204, "ok", NoContent)

\* admin_restore_folder, the loop body: a blanket clear of the three fields.
RestoreFolders(fs, S) ==
    [f \in FolderIds |->
        IF f \in S
        THEN [fs[f] EXCEPT !.is_deleted = FALSE, !.deleted_at = NoTime, !.deleted_by = NoUser]
        ELSE fs[f]]

RestoreFiles(fl, S) ==
    [x \in FileIds |->
        IF fl[x].exists /\ fl[x].folder \in S
        THEN [fl[x] EXCEPT !.is_deleted = FALSE, !.deleted_at = NoTime, !.deleted_by = NoUser]
        ELSE fl[x]]

\* admin_restore_folder (IsAdminUser)
AdminRestoreFolder(actor, pk) ==
    /\ UNCHANGED <<procs, users, sessions, links, audit, now>>
    /\ IF ~IsStaff(actor)
       THEN /\ UNCHANGED <<folders, files>>
            /\ last' = Resp("admin_restore_folder", actor, FALSE, pk, 403, "forbidden", NoContent)
       ELSE IF ~(folders[pk].exists /\ folders[pk].is_deleted)
       THEN /\ UNCHANGED <<folders, files>>
            /\ last' = Resp("admin_restore_folder", actor, FALSE, pk, 404, "not_found", NoContent)
       ELSE LET S == SeqRange(Walk(folders, pk)) IN
            /\ folders' = RestoreFolders(folders, S)
            /\ files' = RestoreFiles(files, S)
            /\ last' = Resp("admin_restore_folder", actor, FALSE, pk, 200, "ok", NoContent)

\* admin_restore_file (IsAdminUser)
AdminRestoreFile(actor, pk) ==
    /\ UNCHANGED <<procs, users, sessions, folders, links, audit, now>>
    /\ IF ~IsStaff(actor)
       THEN /\ files' = files
            /\ last' = Resp("admin_restore_file", actor, FALSE, pk, 403, "forbidden", NoContent)
       ELSE IF ~(files[pk].exists /\ files[pk].is_deleted)
       THEN /\ files' = files
            /\ last' = Resp("admin_restore_file", actor, FALSE, pk, 404, "not_found", NoContent)
       ELSE /\ files' = [files EXCEPT ![pk].is_deleted = FALSE, ![pk].deleted_at = NoTime,
                                      ![pk].deleted_by = NoUser]
            /\ last' = Resp("admin_restore_file", actor, FALSE, pk, 200, "ok", NoContent)


\* ------------------------------------------------------------ initial states
\* One active session and archived ones, as setup_data creates them.
InitSessions ==
    [s \in SessionIds |-> [exists |-> TRUE, is_active |-> (s = 1)]]

\* The state after construction: users and sessions, and no content.
InitEmpty ==
    /\ users = InitUsers
    /\ procs = NoProcs
    /\ sessions = InitSessions
    /\ folders = [f \in FolderIds |-> NoFolder]
    /\ files = [x \in FileIds |-> NoFile]
    /\ links = [l \in LinkIds |-> NoLink]
    /\ audit = {}
    /\ now = 0
    /\ last = NoResp

\* The users who own the content of a drawn initial state.
ContentOwners == {"faculty", "student"}

\* The rows FolderCreate and FileUpload leave when every request asks for a
\* private row in the active session: row i was created after the rows
\* below i, under one of them or at the root, by a faculty user or a student.
CreatedFolderRows ==
    {[exists |-> TRUE, parent |-> p, owner |-> o, session |-> 1,
      is_public |-> FALSE, is_deleted |-> FALSE, deleted_at |-> NoTime,
      deleted_by |-> NoUser] : p \in 0..(MaxFolders - 1), o \in ContentOwners}

CreatedFileRows ==
    {[exists |-> TRUE, folder |-> p, owner |-> o, session |-> 1,
      is_public |-> FALSE, is_deleted |-> FALSE, deleted_at |-> NoTime,
      deleted_by |-> NoUser, blob |-> TRUE] : p \in 0..MaxFolders, o \in ContentOwners}

CreatedContent(fs, fl) ==
    /\ \A i \in FolderIds :
          fs[i].exists => /\ fs[i].parent < i
                          /\ \A j \in 1..(i - 1) : fs[j].exists
    /\ \A x \in FileIds :
          fl[x].exists => /\ (fl[x].folder # NoId => fs[fl[x].folder].exists)
                          /\ \A y \in 1..(x - 1) : fl[y].exists

\* A state the creation requests reach: some private content, no links.
InitContent ==
    /\ users = InitUsers
    /\ procs = NoProcs
    /\ sessions = InitSessions
    /\ folders \in [FolderIds -> CreatedFolderRows \cup {NoFolder}]
    /\ files \in [FileIds -> CreatedFileRows \cup {NoFile}]
    /\ CreatedContent(folders, files)
    /\ links = [l \in LinkIds |-> NoLink]
    /\ audit = {AuditRow(x, files[x].owner, "upload") : x \in ExistingFiles}
    /\ now = 0
    /\ last = NoResp

\* -------------------------------------------------------------- share links
\* A validity test without the download limit.
IsValidNoLimit(l, t) ==
    IF ~l.is_active THEN FALSE
    ELSE IF l.expires_at # NoTime /\ l.expires_at < t THEN FALSE
    ELSE TRUE

\* A validity test without the expiry date.
IsValidNoExpiry(l, t) ==
    IF ~l.is_active THEN FALSE
    ELSE IF (l.max_downloads # NoCount /\ l.max_downloads # 0)
             /\ l.download_count >= l.max_downloads THEN FALSE
    ELSE TRUE

\* ShareLink.is_valid at the time t.  A datetime is always truthy; the
\* integer max_downloads is truthy unless it is None or 0.
IsValid(l, t) ==
    IF ~l.is_active THEN FALSE
    ELSE IF l.expires_at # NoTime /\ l.expires_at < t THEN FALSE
    ELSE IF (l.max_downloads # NoCount /\ l.max_downloads # 0)
             /\ l.download_count >= l.max_downloads THEN FALSE
    ELSE TRUE

ExistingLinks == {l \in LinkIds : links[l].exists}

\* The request to POST /api/share/ and its response.
ShareCreateResp(actor, file_item, folder, target, status, outcome) ==
    [op |-> "share_create", actor |-> actor, is_public |-> FALSE,
     file_item |-> file_item, folder |-> folder, target |-> target,
     status |-> status, outcome |-> outcome, content |-> NoContent]

\* Not the program: a validation that lets every request through.
ValidateAnything(file_item, folder) == TRUE

\* ShareLinkSerializer.validate: bool(file_item) == bool(folder) is refused.
Validate(file_item, folder) == (file_item # NoId) # (folder # NoId)

\* POST /api/share/: ShareLinkSerializer.validate, then perform_create.
\* download_count is read-only and is_active is forced to True.
ShareLinkCreate(actor, file_item, folder, share_type, expires_at, email, password, max_downloads) ==
    LET pk == NextId(ExistingLinks) IN
    /\ pk \in LinkIds
    /\ IsAuthenticated(actor)
    /\ UNCHANGED <<procs, users, sessions, folders, files, now>>
    /\ IF \/ (file_item # NoId /\ ~files[file_item].exists)
          \/ (folder # NoId /\ ~folders[folder].exists)
          \/ ~Validate(file_item, folder)
       THEN /\ UNCHANGED <<links, audit>>
            /\ last' = ShareCreateResp(actor, file_item, folder, NoId, 400, "invalid")
       ELSE /\ links' = [links EXCEPT ![pk] =
                   [exists |-> TRUE, file_item |-> file_item, folder |-> folder,
                    share_type |-> share_type, created_by |-> actor,
                    expires_at |-> expires_at, email |-> email, password |-> password,
                    max_downloads |-> max_downloads, download_count |-> 0,
                    is_active |-> TRUE]]
            /\ audit' = IF file_item # NoId
                        THEN audit \cup {AuditRow(file_item, actor, "share")}
                        ELSE audit
            /\ last' = ShareCreateResp(actor, file_item, folder, pk, 201, "ok")

\* The email test of both resolvers.  link.email.lower() raises
\* AttributeError when link.email is None and the requester is logged in.
EmailCheck(requester, l) ==
    IF ~IsAuthenticated(requester) THEN "forbidden"
    ELSE IF l.email = NoEmail THEN "error"
    ELSE IF Lower(EmailOf(requester)) # Lower(l.email) THEN "forbidden"
    ELSE "ok"

\* A password test that ignores the case of the letters.
PasswordCheckAnyCase(password, l) ==
    IF password \in {NoPassword, ""} \/ Lower(password) # Lower(l.password)
    THEN "unauthorized"
    ELSE "ok"

\* The password test of both resolvers: not password or password != link.password
PasswordCheck(password, l) ==
    IF password \in {NoPassword, ""} \/ password # l.password THEN "unauthorized"
    ELSE "ok"

\* The access check on a valid link, by its share_type.
AccessCheck(requester, password, l) ==
    IF l.share_type = "email" THEN EmailCheck(requester, l)
    ELSE IF l.share_type = "password" THEN PasswordCheck(password, l)
    ELSE "ok"

\* The HTTP status of a refusal by ShareResolveAPI.
RefusalStatus(outcome) ==
    CASE outcome = "forbidden" -> 403
      [] outcome = "unauthorized" -> 401
      [] OTHER -> 500

\* The request to a resolver and its response.
ShareResp(op, requester, password, target, status, outcome, content) ==
    [op |-> op, actor |-> requester, is_public |-> FALSE, password |-> password,
     target |-> target, status |-> status, outcome |-> outcome, content |-> content]

\* serialize_folder_contents of both resolvers: the folder, its files and
\* its children in turn; ShareResolveAPI leaves deleted rows out.
ShownChildren(fs, f, live_only) ==
    {g \in Children(fs, f) : ~live_only \/ ~fs[g].is_deleted}

ShownFiles(fl, f, live_only) ==
    {x \in FilesIn(fl, f) : ~live_only \/ ~fl[x].is_deleted}

RECURSIVE SerializeFolderContents(_, _, _, _, _)
SerializeFolderContents(fs, fl, f, live_only, depth) ==
    IF depth = 0 THEN [content |-> NoContent, ok |-> FALSE]
    ELSE LET subs == {SerializeFolderContents(fs, fl, g, live_only, depth - 1) :
                         g \in ShownChildren(fs, f, live_only)}
         IN [content |-> {<<"folder", f>>}
                           \cup {<<"file", x>> : x \in ShownFiles(fl, f, live_only)}
                           \cup UNION {sub.content : sub \in subs},
             ok |-> \A sub \in subs : sub.ok]

\* GET /api/share/<token>/
ShareResolveAPI(requester, password, pk) ==
    LET l == links[pk]
        access == AccessCheck(requester, password, l)
        tree == SerializeFolderContents(folders, files, l.folder, TRUE, RecursionLimit)
    IN
    /\ UNCHANGED <<procs, users, sessions, folders, files, now>>
    /\ IF ~l.exists
       THEN /\ UNCHANGED <<links, audit>>
            /\ last' = ShareResp("share_resolve", requester, password, pk, 404,
                                 "not_found", NoContent)
       ELSE IF ~IsValid(l, now)
       THEN /\ UNCHANGED <<links, audit>>
            /\ last' = ShareResp("share_resolve", requester, password, pk, 410,
                                 "gone", NoContent)
       ELSE IF access # "ok"
       THEN /\ UNCHANGED <<links, audit>>
            /\ last' = ShareResp("share_resolve", requester, password, pk,
                                 RefusalStatus(access), access, NoContent)
       ELSE IF l.file_item # NoId
       THEN /\ l.download_count < MaxCount
            /\ links' = [links EXCEPT ![pk].download_count = @ + 1]
            /\ audit' = IF IsAuthenticated(requester)
                        THEN audit \cup {AuditRow(l.file_item, requester, "download")}
                        ELSE audit
            /\ last' = ShareResp("share_resolve", requester, password, pk, 200, "ok",
                                 {<<"file", l.file_item>>})
       ELSE /\ UNCHANGED <<links, audit>>
            /\ last' = IF tree.ok
                       THEN ShareResp("share_resolve", requester, password, pk, 200,
                                      "ok", tree.content)
                       ELSE ShareResp("share_resolve", requester, password, pk, 500,
                                      "error", NoContent)

\* GET /share/<token>/: the HTML page.  Every refusal but "not found" is a
\* page sent with status 200; the count goes up before the page is built.
\* Every file row holds a blob (FileItem.file is required), so the
\* file_missing page is never shown.
ShareView(requester, password, pk) ==
    LET l == links[pk]
        access == AccessCheck(requester, password, l)
        tree == SerializeFolderContents(folders, files, l.folder, FALSE, RecursionLimit)
    IN
    /\ UNCHANGED <<procs, users, sessions, folders, files, now>>
    /\ IF ~l.exists
       THEN /\ UNCHANGED <<links, audit>>
            /\ last' = ShareResp("share_view", requester, password, pk, 404,
                                 "not_found", NoContent)
       ELSE IF ~IsValid(l, now)
       THEN /\ UNCHANGED <<links, audit>>
            /\ last' = ShareResp("share_view", requester, password, pk, 200,
                                 "gone", NoContent)
       ELSE IF access = "error"
       THEN /\ UNCHANGED <<links, audit>>
            /\ last' = ShareResp("share_view", requester, password, pk, 500,
                                 "error", NoContent)
       ELSE IF access # "ok"
       THEN /\ UNCHANGED <<links, audit>>
            /\ last' = ShareResp("share_view", requester, password, pk, 200,
                                 access, NoContent)
       ELSE /\ l.download_count < MaxCount
            /\ links' = [links EXCEPT ![pk].download_count = @ + 1]
            /\ audit' = IF IsAuthenticated(requester) /\ l.file_item # NoId
                        THEN audit \cup {AuditRow(l.file_item, requester, "view")}
                        ELSE audit
            /\ last' = IF l.file_item # NoId
                       THEN ShareResp("share_view", requester, password, pk, 200, "ok",
                                      {<<"file", l.file_item>>})
                       ELSE IF tree.ok
                       THEN ShareResp("share_view", requester, password, pk, 200, "ok",
                                      tree.content)
                       ELSE ShareResp("share_view", requester, password, pk, 500,
                                      "error", NoContent)

\* What an admin action or the clock leaves as the last exchange.
AdminResp(op) == Resp(op, "admin", FALSE, NoId, 200, "ok", NoContent)

\* An admin action that flips is_active of the selected links.
DeactivateLinksToggle(selection) ==
    /\ selection \subseteq ExistingLinks
    /\ selection # {}
    /\ UNCHANGED <<procs, users, sessions, folders, files, audit, now>>
    /\ links' = [l \in LinkIds |->
                    IF l \in selection THEN [links[l] EXCEPT !.is_active = ~@]
                    ELSE links[l]]
    /\ last' = AdminResp("deactivate_links")

\* ShareLinkAdmin.deactivate_links on the selected links.
DeactivateLinks(selection) ==
    /\ selection \subseteq ExistingLinks
    /\ selection # {}
    /\ UNCHANGED <<procs, users, sessions, folders, files, audit, now>>
    /\ links' = [l \in LinkIds |->
                    IF l \in selection THEN [links[l] EXCEPT !.is_active = FALSE]
                    ELSE links[l]]
    /\ last' = AdminResp("deactivate_links")

\* ShareLinkAdmin.extend_expiry on the selected links: each link that has an
\* expiry gets ExtendDays more.  A link is extended once from an expiry
\* within the modelled time.
ExtendExpiry(selection) ==
    /\ selection \subseteq ExistingLinks
    /\ selection # {}
    /\ \A l \in selection : links[l].expires_at <= MaxTime
    /\ UNCHANGED <<procs, users, sessions, folders, files, audit, now>>
    /\ links' = [l \in LinkIds |->
                    IF l \in selection /\ links[l].expires_at # NoTime
                    THEN [links[l] EXCEPT !.expires_at = @ + ExtendDays]
                    ELSE links[l]]
    /\ last' = AdminResp("extend_expiry")

\* timezone.now() moves on by a day.
Tick ==
    /\ now < MaxTime
    /\ now' = now + 1
    /\ UNCHANGED <<procs, users, sessions, folders, files, links, audit>>
    /\ last' = Resp("tick", NoUser, FALSE, NoId, 0, "none", NoContent)

\* ----------------------------------------------------------------- sessions
\* POST /api/sessions/: any logged-in user; the serializer refuses a year
\* that is taken and writes is_active as it was sent.  A session row is
\* named by its year.
SessionCreate(actor, year, is_active) ==
    /\ IsAuthenticated(actor)
    /\ UNCHANGED <<procs, users, folders, files, links, audit, now>>
    /\ IF sessions[year].exists
       THEN /\ sessions' = sessions
            /\ last' = Resp("session_create", actor, is_active, NoId, 400, "invalid",
                            NoContent)
       ELSE /\ sessions' = [sessions EXCEPT ![year] =
                               [exists |-> TRUE, is_active |-> is_active]]
            /\ last' = Resp("session_create", actor, is_active, year, 201, "ok",
                            NoContent)

\* PUT or PATCH /api/sessions/<pk>/ with is_active: any logged-in user.
SessionUpdate(actor, pk, is_active) ==
    /\ IsAuthenticated(actor)
    /\ UNCHANGED <<procs, users, folders, files, links, audit, now>>
    /\ IF ~sessions[pk].exists
       THEN /\ sessions' = sessions
            /\ last' = Resp("session_update", actor, is_active, pk, 404, "not_found",
                            NoContent)
       ELSE /\ sessions' = [sessions EXCEPT ![pk].is_active = is_active]
            /\ last' = Resp("session_update", actor, is_active, pk, 200, "ok", NoContent)

\* POST /api/admin/sessions/<pk>/activate/: staff only; every session is
\* deactivated, then the target is activated.
AdminSessionActivate(actor, pk) ==
    /\ IsAuthenticated(actor)
    /\ UNCHANGED <<procs, users, folders, files, links, audit, now>>
    /\ IF ~IsStaff(actor)
       THEN /\ sessions' = sessions
            /\ last' = Resp("admin_session_activate", actor, FALSE, pk, 403, "forbidden",
                            NoContent)
       ELSE IF ~sessions[pk].exists
       THEN /\ sessions' = sessions
            /\ last' = Resp("admin_session_activate", actor, FALSE, pk, 404, "not_found",
                            NoContent)
       ELSE /\ sessions' = [s \in SessionIds |->
                               IF sessions[s].exists
                               THEN [sessions[s] EXCEPT !.is_active = (s = pk)]
                               ELSE sessions[s]]
            /\ last' = Resp("admin_session_activate", actor, FALSE, pk, 200, "ok",
                            NoContent)

\* POST /api/admin/sessions/<pk>/deactivate/: staff only.
AdminSessionDeactivate(actor, pk) ==
    /\ IsAuthenticated(actor)
    /\ UNCHANGED <<procs, users, folders, files, links, audit, now>>
    /\ IF ~IsStaff(actor)
       THEN /\ sessions' = sessions
            /\ last' = Resp("admin_session_deactivate", actor, FALSE, pk, 403,
                            "forbidden", NoContent)
       ELSE IF ~sessions[pk].exists
       THEN /\ sessions' = sessions
            /\ last' = Resp("admin_session_deactivate", actor, FALSE, pk, 404,
                            "not_found", NoContent)
       ELSE /\ sessions' = [sessions EXCEPT ![pk].is_active = FALSE]
            /\ last' = Resp("admin_session_deactivate", actor, FALSE, pk, 200, "ok",
                            NoContent)

\* AcademicSessionAdmin.make_active on the selected sessions: every session
\* is deactivated, then every selected one is activated.
MakeActive(selection) ==
    /\ selection # {}
    /\ \A s \in selection : sessions[s].exists
    /\ UNCHANGED <<procs, users, folders, files, links, audit, now>>
    /\ sessions' = [s \in SessionIds |->
                       IF sessions[s].exists
                       THEN [sessions[s] EXCEPT !.is_active = (s \in selection)]
                       ELSE sessions[s]]
    /\ last' = AdminResp("make_active")

\* AcademicSessionAdmin.make_inactive on the selected sessions.
MakeInactive(selection) ==
    /\ selection # {}
    /\ \A s \in selection : sessions[s].exists
    /\ UNCHANGED <<procs, users, folders, files, links, audit, now>>
    /\ sessions' = [s \in SessionIds |->
                       IF s \in selection
                       THEN [sessions[s] EXCEPT !.is_active = FALSE]
                       ELSE sessions[s]]
    /\ last' = AdminResp("make_inactive")

\* -------------------------------------------------------------------- purge
\* item.delete(): the rows are gone, what the storage holds stays.
DeleteFileRows(fl, X) ==
    [x \in FileIds |-> IF x \in X THEN [NoFile EXCEPT !.blob = fl[x].blob] ELSE fl[x]]

\* item.file.delete(save=False): the storage drops the blobs.
DeleteBlobs(fl, X) ==
    [x \in FileIds |-> IF x \in X THEN [fl[x] EXCEPT !.blob = FALSE] ELSE fl[x]]

\* f.delete(): on_delete=CASCADE of Folder.parent and FileItem.folder takes
\* the rows of every folder below f and of every file in them; no blob is
\* touched.
DeleteFolderCascade(fs, fl, f) ==
    [folders |-> [g \in FolderIds |-> IF g \in Subtree(fs, f) THEN NoFolder ELSE fs[g]],
     files |-> DeleteFileRows(fl, SubtreeFiles(fs, fl, f))]

\* on_delete=CASCADE of ShareLink.file_item, ShareLink.folder and
\* FileAuditLog.file_item: what is left of the links and of the log once the
\* rows they refer to are gone.
LinksAfterDelete(ls, fs, fl) ==
    [l \in LinkIds |->
        IF ls[l].exists /\ (\/ (ls[l].file_item # NoId /\ ~fl[ls[l].file_item].exists)
                            \/ (ls[l].folder # NoId /\ ~fs[ls[l].folder].exists))
        THEN NoLink ELSE ls[l]]

AuditAfterDelete(au, fl) == {row \in au : fl[row.file_item].exists}

\* What Folder.objects.filter(parent=f) gives once f.delete() has set f.pk to
\* None depends on the framework release: the folders without a parent, or
\* a ValueError.
UnsavedFilters == {"is_null", "error"}

\* The loop of admin_purge_folder over iter_descendants.  The generator is
\* lazy: the children of f are looked up after the loop body has deleted f.
RECURSIVE PurgeWalk(_, _, _, _, _)
PurgeWalk(fs, fl, pending, seen, unsaved_filter) ==
    IF pending = <<>> THEN [folders |-> fs, files |-> fl, ok |-> TRUE]
    ELSE LET f == pending[Len(pending)]
             rest == SubSeq(pending, 1, Len(pending) - 1)
             own == FilesIn(fl, f)
             cascade == DeleteFolderCascade(fs, DeleteFileRows(DeleteBlobs(fl, own), own), f)
         IN IF f \in seen THEN PurgeWalk(fs, fl, rest, seen, unsaved_filter)
            ELSE IF unsaved_filter = "error"
            THEN [folders |-> cascade.folders, files |-> cascade.files, ok |-> FALSE]
            ELSE PurgeWalk(cascade.folders, cascade.files,
                           rest \o InOrder(Children(cascade.folders, NoId)),
                           seen \cup {f}, unsaved_filter)

\* DELETE admin_purge_folder: staff only; any folder, deleted or not.
AdminPurgeFolder(actor, pk, unsaved_filter) ==
    LET r == PurgeWalk(folders, files, <<pk>>, {}, unsaved_filter) IN
    /\ IsAuthenticated(actor)
    /\ UNCHANGED <<procs, users, sessions, now>>
    /\ IF ~IsStaff(actor)
       THEN /\ UNCHANGED <<folders, files, links, audit>>
            /\ last' = Resp("admin_purge_folder", actor, FALSE, pk, 403, "forbidden",
                            NoContent)
       ELSE IF ~folders[pk].exists
       THEN /\ UNCHANGED <<folders, files, links, audit>>
            /\ last' = Resp("admin_purge_folder", actor, FALSE, pk, 404, "not_found",
                            NoContent)
       ELSE /\ folders' = r.folders
            /\ files' = r.files
            /\ links' = LinksAfterDelete(links, r.folders, r.files)
            /\ audit' = AuditAfterDelete(audit, r.files)
            /\ last' = IF r.ok
                       THEN Resp("admin_purge_folder", actor, FALSE, pk, 200, "ok",
                                 NoContent)
                       ELSE Resp("admin_purge_folder", actor, FALSE, pk, 500, "error",
                                 NoContent)

\* DELETE admin_purge_file: staff only; the blob, then the row.
AdminPurgeFile(actor, pk) ==
    LET fl == DeleteFileRows(DeleteBlobs(files, {pk}), {pk}) IN
    /\ IsAuthenticated(actor)
    /\ UNCHANGED <<procs, users, sessions, folders, now>>
    /\ IF ~IsStaff(actor)
       THEN /\ UNCHANGED <<files, links, audit>>
            /\ last' = Resp("admin_purge_file", actor, FALSE, pk, 403, "forbidden",
                            NoContent)
       ELSE IF ~files[pk].exists
       THEN /\ UNCHANGED <<files, links, audit>>
            /\ last' = Resp("admin_purge_file", actor, FALSE, pk, 404, "not_found",
                            NoContent)
       ELSE /\ files' = fl
            /\ links' = LinksAfterDelete(links, folders, fl)
            /\ audit' = AuditAfterDelete(audit, fl)
            /\ last' = Resp("admin_purge_file", actor, FALSE, pk, 200, "ok", NoContent)

\* ------------------------------------------------- resolvers, step by step
\* The two resolvers of a share link.
Resolvers == {"share_resolve", "share_view"}

\* A request to a resolver served by the worker p next to other requests.
\* First step: the link row is read and tested on the copy; a request that
\* passes holds its copy until its second step.
ResolveStatus(op, outcome) ==
    IF outcome = "not_found" THEN 404
    ELSE IF outcome = "error" THEN 500
    ELSE IF op = "share_view" THEN 200
    ELSE IF outcome = "gone" THEN 410
    ELSE RefusalStatus(outcome)

ResolveRead(p, op, requester, password, pk) ==
    LET l == links[pk]
        access == AccessCheck(requester, password, l)
        outcome == IF ~l.exists THEN "not_found"
                   ELSE IF ~IsValid(l, now) THEN "gone"
                   ELSE access
        request == [IdleProc EXCEPT !.op = op, !.actor = requester,
                                    !.password = password, !.target = pk, !.at = now]
    IN
    /\ procs[p].pc = "idle"
    /\ UNCHANGED <<users, sessions, folders, files, links, audit, now>>
    /\ IF outcome # "ok"
       THEN /\ procs' = [procs EXCEPT ![p] = [request EXCEPT !.pc = "done",
                                                             !.outcome = outcome]]
            /\ last' = ShareResp(op, requester, password, pk,
                                 ResolveStatus(op, outcome), outcome, NoContent)
       ELSE /\ procs' = [procs EXCEPT ![p] = [request EXCEPT !.pc = "read", !.link = l]]
            /\ UNCHANGED last

\* Second step: link.download_count += 1 on the copy and link.save(), which
\* writes every column of the copy; then the audit entry and the response.
\* ShareResolveAPI writes nothing for a folder link.
ResolveSave(p) ==
    LET r == procs[p]
        l == r.link
        pk == r.target
        live_only == (r.op = "share_resolve")
        tree == SerializeFolderContents(folders, files, l.folder, live_only,
                                        RecursionLimit)
        outcome == IF l.file_item # NoId \/ tree.ok THEN "ok" ELSE "error"
        content == IF l.file_item # NoId THEN {<<"file", l.file_item>>}
                   ELSE IF tree.ok THEN tree.content ELSE NoContent
    IN
    /\ r.pc = "read"
    /\ UNCHANGED <<users, sessions, folders, files, now>>
    /\ IF r.op = "share_resolve" /\ l.file_item = NoId
       THEN UNCHANGED <<links, audit>>
       ELSE /\ links' = [links EXCEPT ![pk] = [l EXCEPT !.download_count = @ + 1]]
            /\ audit' = IF IsAuthenticated(r.actor) /\ l.file_item # NoId
                        THEN audit \cup {AuditRow(l.file_item, r.actor,
                                 IF r.op = "share_resolve" THEN "download" ELSE "view")}
                        ELSE audit
    /\ procs' = [procs EXCEPT ![p].pc = "done", ![p].outcome = outcome]
    /\ last' = ShareResp(r.op, r.actor, r.password, pk,
                         IF outcome = "ok" THEN 200 ELSE 500, outcome, content)

\* ------------------------------------- folder handlers, step by step
\* A request served by the worker p next to other requests.  First step of
\* folder_toggle_visibility: Folder.objects.get(pk=pk) and the permission
\* test; a request that passes holds its copy of the row.
ToggleRead(p, actor, pk, raw) ==
    LET is_public == ParseBool(raw)
        outcome == IF ~folders[pk].exists THEN "not_found"
                   ELSE IF ~FolderVisibilityAllowed(actor, folders[pk].owner, is_public)
                   THEN "forbidden"
                   ELSE "ok"
        request == [IdleProc EXCEPT !.op = "folder_toggle_visibility", !.actor = actor,
                                    !.is_public = is_public, !.target = pk]
    IN
    /\ procs[p].pc = "idle"
    /\ IsAuthenticated(actor)
    /\ UNCHANGED <<users, sessions, folders, files, links, audit, now>>
    /\ IF outcome # "ok"
       THEN /\ procs' = [procs EXCEPT ![p] = [request EXCEPT !.pc = "done",
                                                             !.outcome = outcome]]
            /\ last' = Resp("folder_toggle_visibility", actor, is_public, pk,
                            IF outcome = "not_found" THEN 404 ELSE 403, outcome,
                            NoContent)
       ELSE /\ procs' = [procs EXCEPT ![p] = [request EXCEPT !.pc = "read",
                                                             !.folder = folders[pk]]]
            /\ UNCHANGED last

\* Second step: _set_folder_visibility_recursive on the copy.  folder.save()
\* writes every column of the copy; the files and the children are read anew.
ToggleSave(p) ==
    LET r == procs[p]
        written == [folders EXCEPT ![r.target] = r.folder]
        set == SetFolderVisibilityRecursive(written, files, r.target, r.is_public,
                                            RecursionLimit)
    IN
    /\ r.pc = "read"
    /\ r.op = "folder_toggle_visibility"
    /\ UNCHANGED <<users, sessions, links, audit, now>>
    /\ folders' = set.folders
    /\ files' = set.files
    /\ procs' = [procs EXCEPT ![p].pc = "done",
                               ![p].outcome = IF set.ok THEN "ok" ELSE "error"]
    /\ last' = Resp("folder_toggle_visibility", r.actor, r.is_public, r.target,
                    IF set.ok THEN 200 ELSE 500, IF set.ok THEN "ok" ELSE "error",
                    NoContent)

\* First step of FolderDetailAPI.destroy: get_object on the folders that are
\* not deleted, and the permission test.
DestroyRead(p, actor, pk) ==
    LET outcome == IF ~(folders[pk].exists /\ ~folders[pk].is_deleted) THEN "not_found"
                   ELSE IF ~MayDelete(actor, folders[pk].owner) THEN "forbidden"
                   ELSE "ok"
        request == [IdleProc EXCEPT !.op = "folder_destroy", !.actor = actor,
                                    !.target = pk]
    IN
    /\ procs[p].pc = "idle"
    /\ IsAuthenticated(actor)
    /\ UNCHANGED <<users, sessions, folders, files, links, audit, now>>
    /\ IF outcome # "ok"
       THEN /\ procs' = [procs EXCEPT ![p] = [request EXCEPT !.pc = "done",
                                                             !.outcome = outcome]]
            /\ last' = Resp("folder_destroy", actor, FALSE, pk,
                            IF outcome = "not_found" THEN 404 ELSE 403, outcome,
                            NoContent)
       ELSE /\ procs' = [procs EXCEPT ![p] = [request EXCEPT !.pc = "read",
                                                             !.folder = folders[pk]]]
            /\ UNCHANGED last

\* Second step: the walk and its queryset updates, which write the three
\* deletion columns only, and the links of the folder.
DestroyUpdate(p) ==
    LET r == procs[p]
        S == SeqRange(Walk(folders, r.target))
    IN
    /\ r.pc = "read"
    /\ r.op = "folder_destroy"
    /\ UNCHANGED <<users, sessions, audit, now>>
    /\ folders' = SoftDeleteFolders(folders, S, now, r.actor)
    /\ files' = SoftDeleteFiles(folders, files, S, now, r.actor)
    /\ links' = DeactivateFolderLinks(links, r.target)
    /\ procs' = [procs EXCEPT ![p].pc = "done", ![p].outcome = "ok"]
    /\ last' = Resp("folder_destroy", r.actor, FALSE, r.target, 204, "ok", NoContent)

\* ------------------------------------------------- PUT/PATCH of a row
\* A field the request leaves out.
Keep == -2
Absent == "absent"

\* The request to an update endpoint and its response.
UpdateResp(op, actor, parent, visibility, target, status, outcome) ==
    [op |-> op, actor |-> actor, is_public |-> (visibility = "true"),
     parent |-> parent, visibility |-> visibility, target |-> target,
     status |-> status, outcome |-> outcome, content |-> NoContent]

\* FolderSerializer.validate / FileItemSerializer.validate on an update,
\* where the session is the one of the instance: refused for a user who is
\* not staff when that session is not active.
SessionOpen(actor, session) ==
    ~(session # NoId /\ ~sessions[session].is_active /\ ~IsStaff(actor))

\* PATCH /api/folders/<pk>/ (UpdateModelMixin of FolderDetailAPI): any
\* logged-in user, any folder that is not deleted; parent and is_public are
\* writable fields of FolderSerializer, and the parent may be any folder row.
FolderUpdate(actor, pk, parent, visibility) ==
    /\ IsAuthenticated(actor)
    /\ UNCHANGED <<procs, users, sessions, files, links, audit, now>>
    /\ IF ~(folders[pk].exists /\ ~folders[pk].is_deleted)
       THEN /\ UNCHANGED folders
            /\ last' = UpdateResp("folder_update", actor, parent, visibility, pk, 404,
                                  "not_found")
       ELSE IF \/ (parent \notin {Keep, NoId} /\ ~folders[parent].exists)
               \/ ~SessionOpen(actor, folders[pk].session)
       THEN /\ UNCHANGED folders
            /\ last' = UpdateResp("folder_update", actor, parent, visibility, pk, 400,
                                  "invalid")
       ELSE /\ folders' = [folders EXCEPT
                   ![pk].parent = IF parent = Keep THEN @ ELSE parent,
                   ![pk].is_public = IF visibility = Absent THEN @
                                     ELSE (visibility = "true")]
            /\ last' = UpdateResp("folder_update", actor, parent, visibility, pk, 200,
                                  "ok")

\* PATCH /api/files/<pk>/ (UpdateModelMixin of FileDetailAPI): any logged-in
\* user, any file that is not deleted; folder and is_public are writable
\* fields of FileItemSerializer.
FileUpdate(actor, pk, folder, visibility) ==
    /\ IsAuthenticated(actor)
    /\ UNCHANGED <<procs, users, sessions, folders, links, audit, now>>
    /\ IF ~(files[pk].exists /\ ~files[pk].is_deleted)
       THEN /\ UNCHANGED files
            /\ last' = UpdateResp("file_update", actor, folder, visibility, pk, 404,
                                  "not_found")
       ELSE IF \/ (folder \notin {Keep, NoId} /\ ~folders[folder].exists)
               \/ ~SessionOpen(actor, files[pk].session)
       THEN /\ UNCHANGED files
            /\ last' = UpdateResp("file_update", actor, folder, visibility, pk, 400,
                                  "invalid")
       ELSE /\ files' = [files EXCEPT
                   ![pk].folder = IF folder = Keep THEN @ ELSE folder,
                   ![pk].is_public = IF visibility = Absent THEN @
                                     ELSE (visibility = "true")]
            /\ last' = UpdateResp("file_update", actor, folder, visibility, pk, 200,
                                  "ok")

\* ------------------------------------------- a walk that fails on the way
\* No request runs in a transaction: the views open none, and the settings
\* are taken to leave ATOMIC_REQUESTS at the framework's default.
AtomicRequests == FALSE

\* The rows _set_folder_visibility_recursive saves, in the order it saves
\* them: the folder, each of its files, then the same for each child.
RECURSIVE VisibilityWrites(_, _, _, _)
RECURSIVE ChildrenWrites(_, _, _, _)
VisibilityWrites(fs, fl, f, depth) ==
    IF depth = 0 THEN <<>>
    ELSE <<<<"folder", f>>>>
         \o [i \in 1..Cardinality(FilesIn(fl, f)) |-> <<"file", InOrder(FilesIn(fl, f))[i]>>]
         \o ChildrenWrites(fs, fl, InOrder(Children(fs, f)), depth)

ChildrenWrites(fs, fl, chs, depth) ==
    IF chs = <<>> THEN <<>>
    ELSE VisibilityWrites(fs, fl, Head(chs), depth - 1)
         \o ChildrenWrites(fs, fl, Tail(chs), depth)

\* The statements of the soft-delete and restore loops, in their order: for
\* each folder the walk yields, the update of its row, then the one update
\* of the files in it.
WalkWrites(fs, root) ==
    LET w == Walk(fs, root) IN
    [i \in 1..(2 * Len(w)) |->
        IF i % 2 = 1 THEN <<"folder", w[(i + 1) \div 2]>> ELSE <<"files", w[i \div 2]>>]

\* One save or update of a walk, for the request req.
WriteRow(st, w, req) ==
    IF req.op = "folder_toggle_visibility"
    THEN IF w[1] = "folder"
         THEN [st EXCEPT !.folders[w[2]].is_public = req.is_public]
         ELSE [st EXCEPT !.files[w[2]].is_public = req.is_public]
    ELSE IF req.op = "folder_destroy"
    THEN IF w[1] = "folder"
         THEN [st EXCEPT !.folders = SoftDeleteFolders(st.folders, {w[2]}, now, req.actor)]
         ELSE [st EXCEPT !.files = SoftDeleteFiles(st.folders, st.files, {w[2]}, now,
                                                   req.actor)]
    ELSE IF w[1] = "folder"
         THEN [st EXCEPT !.folders = RestoreFolders(st.folders, {w[2]})]
         ELSE [st EXCEPT !.files = RestoreFiles(st.files, {w[2]})]

\* A walk inside one transaction: a failure takes back what was written.
ApplyWritesAtomic(st, w, k, req) == st

\* The first k writes of a walk, each kept as soon as it is made.
RECURSIVE ApplyWrites(_, _, _, _)
ApplyWrites(st, w, k, req) ==
    IF k = 0 THEN st
    ELSE ApplyWrites(WriteRow(st, Head(w), req), Tail(w), k - 1, req)

\* The request req on the folder pk whose walk has the writes w, when the
\* write after the k-th raises: the exception is not caught and the caller
\* is answered 500.
Interrupted(req, pk, w, k) ==
    LET st == ApplyWrites([folders |-> folders, files |-> files], w,
                          IF AtomicRequests THEN 0 ELSE k, req)
    IN /\ k < Len(w)
       /\ UNCHANGED <<procs, users, sessions, links, audit, now>>
       /\ folders' = st.folders
       /\ files' = st.files
       /\ last' = [op |-> req.op, actor |-> req.actor, is_public |-> req.is_public,
                   target |-> pk, status |-> 500, outcome |-> "error",
                   content |-> NoContent, written |-> k]

FolderToggleVisibilityFails(actor, pk, raw, k) ==
    /\ folders[pk].exists
    /\ FolderVisibilityAllowed(actor, folders[pk].owner, ParseBool(raw))
    /\ Interrupted([op |-> "folder_toggle_visibility", actor |-> actor,
                    is_public |-> ParseBool(raw)], pk,
                   VisibilityWrites(folders, files, pk, RecursionLimit), k)

FolderDestroyFails(actor, pk, k) ==
    /\ folders[pk].exists /\ ~folders[pk].is_deleted
    /\ MayDelete(actor, folders[pk].owner)
    /\ Interrupted([op |-> "folder_destroy", actor |-> actor, is_public |-> FALSE], pk,
                   WalkWrites(folders, pk), k)

AdminRestoreFolderFails(actor, pk, k) ==
    /\ IsStaff(actor)
    /\ folders[pk].exists /\ folders[pk].is_deleted
    /\ Interrupted([op |-> "admin_restore_folder", actor |-> actor, is_public |-> FALSE],
                   pk, WalkWrites(folders, pk), k)

\* ------------------------------------------- a failing audit-log write
\* The request and the response of a handler whose
\* FileAuditLog.objects.create raised.
AuditFailedResp(op, actor, target, status, outcome) ==
    [op |-> op, actor |-> actor, is_public |-> FALSE, target |-> target,
     status |-> status, outcome |-> outcome, content |-> NoContent,
     audit_failed |-> TRUE]

\* FileDetailAPI.destroy: the create is inside try / except Exception: pass.
FileDestroyAuditFails(actor, pk) ==
    /\ files[pk].exists /\ ~files[pk].is_deleted
    /\ MayDelete(actor, files[pk].owner)
    /\ UNCHANGED <<procs, users, sessions, folders, audit, now>>
    /\ files' = [files EXCEPT ![pk].is_deleted = TRUE, ![pk].deleted_at = now,
                              ![pk].deleted_by = actor]
    /\ links' = DeactivateFileLinks(links, pk)
    /\ last' = AuditFailedResp("file_destroy", actor, pk, 204, "ok")

\* ShareLinkCreateAPI.perform_create on a file: the link is saved, then the
\* create raises out of the view.
ShareLinkCreateAuditFails(actor, file_item, share_type, password) ==
    LET pk == NextId(ExistingLinks) IN
    /\ pk \in LinkIds
    /\ IsAuthenticated(actor)
    /\ files[file_item].exists
    /\ UNCHANGED <<procs, users, sessions, folders, files, audit, now>>
    /\ links' = [links EXCEPT ![pk] =
            [exists |-> TRUE, file_item |-> file_item, folder |-> NoId,
             share_type |-> share_type, created_by |-> actor, expires_at |-> NoTime,
             email |-> NoEmail, password |-> password, max_downloads |-> NoCount,
             download_count |-> 0, is_active |-> TRUE]]
    /\ last' = AuditFailedResp("share_create", actor, pk, 500, "error")

\* ShareResolveAPI.get on a file link, by a logged-in requester: the count
\* is saved, then the create raises out of the view.
ShareResolveAuditFails(requester, password, pk) ==
    /\ links[pk].exists /\ links[pk].file_item # NoId
    /\ IsValid(links[pk], now)
    /\ AccessCheck(requester, password, links[pk]) = "ok"
    /\ IsAuthenticated(requester)
    /\ links[pk].download_count < MaxCount
    /\ UNCHANGED <<procs, users, sessions, folders, files, audit, now>>
    /\ links' = [links EXCEPT ![pk].download_count = @ + 1]
    /\ last' = AuditFailedResp("share_resolve", requester, pk, 500, "error")

\* ------------------------------------------------------------ user flags
\* str(value).lower() in ('1','true','yes','on') of a field that is given.
Truthy(raw) == Lower(raw) \in {"1", "true", "yes", "on"}

\* The request to a user endpoint and its response.
UserResp(op, actor, user, is_staff, is_superuser, is_faculty, status, outcome) ==
    [op |-> op, actor |-> actor, is_public |-> FALSE, target |-> NoId, user |-> user,
     is_staff |-> is_staff, is_superuser |-> is_superuser, is_faculty |-> is_faculty,
     status |-> status, outcome |-> outcome, content |-> NoContent]

\* POST admin_user_update (IsAdminUser): is_staff, is_superuser and
\* is_faculty of the request, each given or left out.
AdminUserUpdate(actor, pk, is_staff, is_superuser, is_faculty) ==
    LET saved == [users[pk] EXCEPT
                     !.is_staff = IF is_staff = Absent THEN @ ELSE Truthy(is_staff),
                     !.is_superuser = IF is_superuser = Absent THEN @
                                      ELSE Truthy(is_superuser)]
    IN
    /\ IsAuthenticated(actor)
    /\ UNCHANGED <<procs, sessions, folders, files, links, audit, now>>
    /\ IF ~IsStaff(actor)
       THEN /\ UNCHANGED users
            /\ last' = UserResp("admin_user_update", actor, pk, is_staff, is_superuser,
                                is_faculty, 403, "forbidden")
       ELSE IF is_faculty # Absent /\ Truthy(is_faculty) /\ ~IsSuperuser(actor)
       THEN \* user.save() has run before the faculty rule is tested
            /\ users' = [users EXCEPT ![pk] = saved]
            /\ last' = UserResp("admin_user_update", actor, pk, is_staff, is_superuser,
                                is_faculty, 403, "forbidden")
       ELSE /\ users' = [users EXCEPT ![pk] =
                   [saved EXCEPT !.is_faculty = IF is_faculty = Absent THEN @
                                                ELSE Truthy(is_faculty)]]
            /\ last' = UserResp("admin_user_update", actor, pk, is_staff, is_superuser,
                                is_faculty, 200, "ok")

\* POST update_profile: is_faculty is taken out of the data of a user who is
\* not a superuser; what is left is saved on the user's own profile.
UpdateProfile(actor, is_faculty) ==
    /\ IsAuthenticated(actor)
    /\ UNCHANGED <<procs, sessions, folders, files, links, audit, now>>
    /\ users' = [users EXCEPT ![actor].is_faculty =
                    IF is_faculty = Absent \/ ~IsSuperuser(actor) THEN @
                    ELSE Truthy(is_faculty)]
    /\ last' = UserResp("update_profile", actor, actor, Absent, Absent, is_faculty, 200,
                        "ok")

\* ------------------------------------------------- the department override
\* The users whose profile names the department.
DepartmentMembers == {"faculty", "student"}

\* POST admin_department_update (IsAdminUser): active_session_override of
\* the request, '' (NoId here) clearing it.
AdminDepartmentUpdate(actor, active_session_override) ==
    /\ IsAuthenticated(actor)
    /\ UNCHANGED <<procs, sessions, folders, files, links, audit, now>>
    /\ IF ~IsStaff(actor)
       THEN /\ UNCHANGED users
            /\ last' = Resp("admin_department_update", actor, FALSE,
                            active_session_override, 403, "forbidden", NoContent)
       ELSE IF active_session_override # NoId /\ ~sessions[active_session_override].exists
       THEN /\ UNCHANGED users
            /\ last' = Resp("admin_department_update", actor, FALSE,
                            active_session_override, 404, "not_found", NoContent)
       ELSE /\ users' = [u \in UserNames |->
                            IF u \in DepartmentMembers
                            THEN [users[u] EXCEPT
                                    !.active_session_override = active_session_override]
                            ELSE users[u]]
            /\ last' = Resp("admin_department_update", actor, FALSE,
                            active_session_override, 200, "ok", NoContent)

\* ------------------------------------------------------- the public tree
\* The files public_folder_tree shows in a folder (NoId: at the root).
PublicFilesDeletedToo(fl, f) == {x \in FilesIn(fl, f) : fl[x].is_public}

PublicFiles(fl, f) == {x \in FilesIn(fl, f) : fl[x].is_public /\ ~fl[x].is_deleted}

\* The folders it shows in a folder (NoId: the root folders).
PublicChildren(fs, f) == {c \in Children(fs, f) : fs[c].is_public /\ ~fs[c].is_deleted}

\* serialize_folder: the folder, its public live files, and the same for
\* its public live children.
RECURSIVE SerializeFolder(_, _, _)
SerializeFolder(fs, fl, f) ==
    {<<"folder", f>>}
        \cup {<<"file", x>> : x \in PublicFiles(fl, f)}
        \cup UNION {SerializeFolder(fs, fl, ch) : ch \in PublicChildren(fs, f)}

\* GET public_folder_tree (AllowAny): for every session, the root folders
\* and root files of the session that are public and live, folders
\* serialized by serialize_folder.  The rows of the model are all of one
\* active department.
PublicFolderTree(requester) ==
    LET root_folders == {f \in PublicChildren(folders, NoId) :
                            folders[f].session \in SessionIds
                            /\ sessions[folders[f].session].exists}
        root_files == {x \in PublicFiles(files, NoId) :
                            files[x].session \in SessionIds
                            /\ sessions[files[x].session].exists}
    IN
    /\ last' = Resp("public_folder_tree", requester, FALSE, NoId, 200, "ok",
                    {<<"file", x>> : x \in root_files}
                        \cup UNION {SerializeFolder(folders, files, f) : f \in root_folders})
    /\ UNCHANGED <<users, procs, sessions, folders, files, links, audit, now>>

\* ---------------------------------------------------------- specifications
\* Creation of folders and files.
NextCreate ==
    \E actor \in UserNames, raw \in RawBools, session \in {NoId} \cup SessionIds :
        \/ \E parent \in {NoId} \cup FolderIds : FolderCreate(actor, parent, session, raw)
        \/ \E folder \in {NoId} \cup FolderIds : FileUpload(actor, folder, session, raw)

\* Creation, with a staff user changing the visibility of folders in between.
NextCreateVis ==
    \/ NextCreate
    \/ \E raw \in RawBools, pk \in FolderIds :
          FolderToggleVisibility("admin", pk, raw)

SpecCreate == InitEmpty /\ [][NextCreateVis]_vars

\* The visibility toggles on created content.
NextVis ==
    \E actor \in UserNames, raw \in RawBools :
        \/ \E pk \in FileIds : FileToggleVisibility(actor, pk, raw)
        \/ \E pk \in FolderIds : FolderToggleVisibility(actor, pk, raw)

SpecVis == InitContent /\ [][NextVis]_vars

\* Soft delete and restore on created content.
NextDel ==
    \E actor \in UserNames :
        \/ \E pk \in FolderIds : FolderDestroy(actor, pk)
        \/ \E pk \in FileIds : FileDestroy(actor, pk)
        \/ \E pk \in FolderIds : AdminRestoreFolder(actor, pk)
        \/ \E pk \in FileIds : AdminRestoreFile(actor, pk)

\* Content that one user created alone.
InitOwnContent ==
    /\ InitContent
    /\ \E o \in ContentOwners :
          /\ \A f \in ExistingFolders : folders[f].owner = o
          /\ \A x \in ExistingFiles : files[x].owner = o

SpecDel == InitOwnContent /\ [][NextDel]_vars

\* One folder with one file in it, both created by a faculty user.
InitShare ==
    /\ users = InitUsers
    /\ procs = NoProcs
    /\ sessions = InitSessions
    /\ folders = [f \in FolderIds |->
                    IF f = 1
                    THEN [NoFolder EXCEPT !.exists = TRUE, !.owner = "faculty",
                                          !.session = 1]
                    ELSE NoFolder]
    /\ files = [x \in FileIds |->
                    IF x = 1
                    THEN [NoFile EXCEPT !.exists = TRUE, !.folder = 1,
                                        !.owner = "faculty", !.session = 1,
                                        !.blob = TRUE]
                    ELSE NoFile]
    /\ links = [l \in LinkIds |-> NoLink]
    /\ audit = {AuditRow(1, "faculty", "upload")}
    /\ now = 0
    /\ last = NoResp

\* The expiry and the download limit a link is created with.
ExpiryChoices == {NoTime, MaxTime - 1}
LimitChoices == {NoCount} \cup (0..(MaxCount - 1))

\* The life of public links on the file: creation, anonymous resolves, the
\* clock, the admin actions on links, and the file's delete and restore.
NextShare ==
    \/ \E file_item \in {NoId} \cup FileIds, expires_at \in ExpiryChoices,
          max_downloads \in LimitChoices :
          ShareLinkCreate("faculty", file_item, NoId, "public", expires_at, NoEmail, "",
                          max_downloads)
    \/ \E pk \in LinkIds : ShareResolveAPI(Anonymous, NoPassword, pk)
    \/ \E pk \in LinkIds : ShareView(Anonymous, NoPassword, pk)
    \/ Tick
    \/ \E selection \in SUBSET LinkIds : DeactivateLinks(selection)
    \/ \E selection \in SUBSET LinkIds : ExtendExpiry(selection)
    \/ \E pk \in FileIds : FileDestroy("faculty", pk)
    \/ \E pk \in FileIds : AdminRestoreFile("admin", pk)

SpecShare == InitShare /\ [][NextShare]_vars

\* The requesters and the passwords of the resolve requests.
Requesters == {Anonymous, "faculty", "student"}
Passwords == {NoPassword, "", "p@ss", "P@SS"}

\* Email and password links on the file, with or without an expiry date,
\* resolved by every requester.
NextAccess ==
    \/ \E email \in {NoEmail, "F@MITS.IN"} :
          ShareLinkCreate("faculty", 1, NoId, "email", NoTime, email, "", NoCount)
    \/ \E password \in {"", "p@ss"}, expires_at \in {NoTime, 0} :
          ShareLinkCreate("faculty", 1, NoId, "password", expires_at, NoEmail, password,
                          NoCount)
    \/ \E pk \in LinkIds, requester \in Requesters, password \in Passwords :
          ShareResolveAPI(requester, password, pk)
    \/ \E pk \in LinkIds, requester \in Requesters, password \in Passwords :
          ShareView(requester, password, pk)
    \/ Tick

SpecAccess == InitShare /\ [][NextAccess]_vars

\* One active session and nothing else.
InitOneSession ==
    /\ users = InitUsers
    /\ procs = NoProcs
    /\ sessions = [s \in SessionIds |->
                      IF s = 1 THEN [exists |-> TRUE, is_active |-> TRUE] ELSE NoSession]
    /\ folders = [f \in FolderIds |-> NoFolder]
    /\ files = [x \in FileIds |-> NoFile]
    /\ links = [l \in LinkIds |-> NoLink]
    /\ audit = {}
    /\ now = 0
    /\ last = NoResp

\* The session operations of the API and of the admin site.
NextSession ==
    \/ \E actor \in UserNames, year \in SessionIds, is_active \in BOOLEAN :
          SessionCreate(actor, year, is_active)
    \/ \E actor \in UserNames, pk \in SessionIds, is_active \in BOOLEAN :
          SessionUpdate(actor, pk, is_active)
    \/ \E actor \in UserNames, pk \in SessionIds : AdminSessionActivate(actor, pk)
    \/ \E actor \in UserNames, pk \in SessionIds : AdminSessionDeactivate(actor, pk)
    \/ \E selection \in SUBSET SessionIds : MakeActive(selection)
    \/ \E selection \in SUBSET SessionIds : MakeInactive(selection)

SpecSession == InitOneSession /\ [][NextSession]_vars

\* A folder, a folder below it and a file in the lower folder, all created
\* by a faculty user.
InitTree ==
    /\ users = InitUsers
    /\ procs = NoProcs
    /\ sessions = InitSessions
    /\ folders = [f \in FolderIds |->
                    IF f \in {1, 2}
                    THEN [NoFolder EXCEPT !.exists = TRUE, !.owner = "faculty",
                                          !.session = 1, !.parent = f - 1]
                    ELSE NoFolder]
    /\ files = [x \in FileIds |->
                    IF x = 1
                    THEN [NoFile EXCEPT !.exists = TRUE, !.folder = 2,
                                        !.owner = "faculty", !.session = 1,
                                        !.blob = TRUE]
                    ELSE NoFile]
    /\ links = [l \in LinkIds |-> NoLink]
    /\ audit = {AuditRow(1, "faculty", "upload")}
    /\ now = 0
    /\ last = NoResp

\* Public links on the folders and the file of the tree, anonymous resolves,
\* and the deletes and restores of the tree.
NextLinks ==
    \/ \E file_item \in {NoId} \cup FileIds, folder \in {NoId, 1, 2},
          max_downloads \in {NoCount, 1} :
          ShareLinkCreate("faculty", file_item, folder, "public", NoTime, NoEmail, "",
                          max_downloads)
    \/ \E pk \in LinkIds : ShareResolveAPI(Anonymous, NoPassword, pk)
    \/ \E pk \in LinkIds : ShareView(Anonymous, NoPassword, pk)
    \/ \E actor \in {"faculty", "student"}, pk \in {1, 2} : FolderDestroy(actor, pk)
    \/ \E actor \in {"faculty", "student"}, pk \in FileIds : FileDestroy(actor, pk)
    \/ \E pk \in {1, 2} : AdminRestoreFolder("admin", pk)
    \/ \E pk \in FileIds : AdminRestoreFile("admin", pk)

SpecLinks == InitTree /\ [][NextLinks]_vars

\* Purge, next to the soft deletes, on content one user created.
NextPurge ==
    \/ \E actor \in {"admin", "faculty"}, pk \in FolderIds,
          unsaved_filter \in UnsavedFilters :
          AdminPurgeFolder(actor, pk, unsaved_filter)
    \/ \E actor \in {"admin", "faculty"}, pk \in FileIds : AdminPurgeFile(actor, pk)
    \/ \E pk \in FolderIds : FolderDestroy("admin", pk)
    \/ \E pk \in FileIds : FileDestroy("admin", pk)

SpecPurge == InitOwnContent /\ [][NextPurge]_vars

\* Links on the file with a download limit, each worker serving one
\* request to a resolver.
NextResolve ==
    \/ \E share_type \in {"public", "password"}, max_downloads \in 1..(MaxProcs - 1) :
          ShareLinkCreate("faculty", 1, NoId, share_type, NoTime, NoEmail, "p@ss",
                          max_downloads)
    \/ \E p \in ProcIds, op \in Resolvers, requester \in {Anonymous, "student"},
          password \in {NoPassword, "p@ss"}, pk \in LinkIds :
          ResolveRead(p, op, requester, password, pk)
    \/ \E p \in ProcIds : ResolveSave(p)

SpecResolve == InitShare /\ [][NextResolve]_vars

\* A folder with a folder and a file below it; each worker serves one
\* request, a soft delete or a change of visibility.
NextCascade ==
    \/ \E p \in ProcIds, actor \in {"admin", "faculty", "student"}, pk \in {1, 2},
          raw \in {"true", "false"} : ToggleRead(p, actor, pk, raw)
    \/ \E p \in ProcIds : ToggleSave(p)
    \/ \E p \in ProcIds, actor \in {"admin", "faculty", "student"}, pk \in {1, 2} :
          DestroyRead(p, actor, pk)
    \/ \E p \in ProcIds : DestroyUpdate(p)

SpecCascade == InitTree /\ [][NextCascade]_vars

\* The walks on a folder graph that the update endpoint has rearranged.
NextGraph ==
    \/ \E pk \in FolderIds, parent \in {NoId} \cup FolderIds :
          FolderUpdate("student", pk, parent, Absent)
    \/ \E pk \in FolderIds : FolderDestroy("admin", pk)
    \/ \E pk \in FolderIds : AdminRestoreFolder("admin", pk)
    \/ \E pk \in FolderIds, unsaved_filter \in UnsavedFilters :
          AdminPurgeFolder("admin", pk, unsaved_filter)
    \/ \E pk \in FolderIds, raw \in {"true", "false"} :
          FolderToggleVisibility("admin", pk, raw)

SpecGraph == InitTree /\ [][NextGraph]_vars

\* The walks on a folder with a folder and a file below it, run to their
\* end or stopped by a failing write.
MaxWrites == 2 * MaxFolders

NextPartial ==
    \/ \E pk \in FolderIds, raw \in {"true", "false"}, k \in 0..MaxWrites :
          FolderToggleVisibilityFails("faculty", pk, raw, k)
    \/ \E pk \in FolderIds, k \in 0..MaxWrites : FolderDestroyFails("faculty", pk, k)
    \/ \E pk \in FolderIds, k \in 0..MaxWrites : AdminRestoreFolderFails("admin", pk, k)
    \/ \E pk \in FolderIds, raw \in {"true", "false"} :
          FolderToggleVisibility("faculty", pk, raw)
    \/ \E pk \in FolderIds : FolderDestroy("faculty", pk)
    \/ \E pk \in FolderIds : AdminRestoreFolder("admin", pk)

SpecPartial == InitTree /\ [][NextPartial]_vars

\* Links on the file, resolved and deleted, with audit writes that fail.
NextAudit ==
    \/ \E share_type \in {"public", "password"} :
          ShareLinkCreate("faculty", 1, NoId, share_type, NoTime, NoEmail, "p@ss", NoCount)
    \/ \E share_type \in {"public", "password"} :
          ShareLinkCreateAuditFails("faculty", 1, share_type, "p@ss")
    \/ \E requester \in Requesters, password \in {NoPassword, "p@ss"}, pk \in LinkIds :
          ShareResolveAPI(requester, password, pk)
    \/ \E requester \in Requesters, password \in {NoPassword, "p@ss"}, pk \in LinkIds :
          ShareResolveAuditFails(requester, password, pk)
    \/ \E actor \in {"faculty", "student"} : FileDestroy(actor, 1)
    \/ \E actor \in {"faculty", "student"} : FileDestroyAuditFails(actor, 1)
    \/ AdminRestoreFile("admin", 1)

SpecAudit == InitShare /\ [][NextAudit]_vars

\* Every request that writes is_public of a row that is there: the two
\* visibility endpoints and PATCH on the two detail endpoints.
NextPatch ==
    \E actor \in UserNames :
        \/ \E pk \in FolderIds, visibility \in {Absent, "true", "false"} :
              FolderUpdate(actor, pk, Keep, visibility)
        \/ \E pk \in FileIds, visibility \in {Absent, "true", "false"} :
              FileUpdate(actor, pk, Keep, visibility)
        \/ \E pk \in FolderIds, raw \in {"true", "false"} :
              FolderToggleVisibility(actor, pk, raw)
        \/ \E pk \in FileIds, raw \in {"true", "false"} :
              FileToggleVisibility(actor, pk, raw)

SpecPatch == InitTree /\ [][NextPatch]_vars

\* The flags of the users, changed through the two user endpoints.
Flags == {Absent, "true", "false"}

NextUsers ==
    \/ \E actor \in UserNames, pk \in UserNames, is_staff \in Flags,
          is_superuser \in Flags, is_faculty \in Flags :
          AdminUserUpdate(actor, pk, is_staff, is_superuser, is_faculty)
    \/ \E actor \in UserNames, is_faculty \in Flags : UpdateProfile(actor, is_faculty)

SpecUsers == InitEmpty /\ [][NextUsers]_vars

\* The public tree, read between toggles, moves, deletes and restores of
\* the folders and the file.
NextPublic ==
    \/ \E requester \in {Anonymous, "student"} : PublicFolderTree(requester)
    \/ \E raw \in {"true", "false"} : FileToggleVisibility("faculty", 1, raw)
    \/ \E pk \in FolderIds, raw \in {"true", "false"} :
          FolderToggleVisibility("faculty", pk, raw)
    \/ \E pk \in FolderIds, parent \in {NoId} \cup FolderIds :
          FolderUpdate("faculty", pk, parent, Absent)
    \/ \E folder \in {NoId} \cup FolderIds : FileUpdate("faculty", 1, folder, Absent)
    \/ \E pk \in FolderIds : FolderDestroy("faculty", pk)
    \/ FileDestroy("faculty", 1)
    \/ \E pk \in FolderIds : AdminRestoreFolder("admin", pk)
    \/ AdminRestoreFile("admin", 1)

SpecPublic == InitTree /\ [][NextPublic]_vars

\* Creation and update by a student while staff switch the sessions and the
\* override of the department.
NextOverride ==
    \/ \E actor \in {"admin", "student"}, active_session_override \in {NoId} \cup SessionIds :
          AdminDepartmentUpdate(actor, active_session_override)
    \/ \E pk \in SessionIds : AdminSessionActivate("admin", pk)
    \/ \E pk \in SessionIds : AdminSessionDeactivate("admin", pk)
    \/ \E parent \in {NoId, 1}, session \in {NoId} \cup SessionIds :
          FolderCreate("student", parent, session, "false")
    \/ \E folder \in {NoId, 1}, session \in {NoId} \cup SessionIds :
          FileUpload("student", folder, session, "false")
    \/ \E pk \in FolderIds : FolderUpdate("student", pk, Keep, "true")
    \/ \E pk \in FileIds : FileUpdate("student", pk, Keep, "true")

SpecOverride == InitEmpty /\ [][NextOverride]_vars

\* ------------------------------------------------------------------ claims
\* C1: after a folder visibility toggle returns successfully for the value v,
\* the folder, every folder below it at any depth and every file in any of
\* them has is_public = v.
C1_CascadeComplete ==
    (last.op = "folder_toggle_visibility" /\ last.status = 200) =>
        /\ folders[last.target].is_public = last.is_public
        /\ \A g \in Subtree(folders, last.target) :
              folders[g].is_public = last.is_public
        /\ \A x \in SubtreeFiles(folders, files, last.target) :
              files[x].is_public = last.is_public

\* A successful toggle to public of a folder with a grandchild folder and a
\* file below the folder itself.
C1_Witness ==
    /\ last.op = "folder_toggle_visibility"
    /\ last.status = 200
    /\ last.is_public
    /\ \E g \in FolderIds, h \in FolderIds, x \in FileIds :
          /\ folders[g].exists /\ folders[g].parent = last.target
          /\ folders[h].exists /\ folders[h].parent = g
          /\ files[x].exists /\ files[x].folder \in {g, h}
          /\ files[x].is_public

\* The rule of the claim: staff, or the owner when the item is made private
\* or the owner is faculty.
VisibilityPermitted(actor, owner, v) ==
    IsStaff(actor) \/ (owner = actor /\ (v = FALSE \/ IsFaculty(actor)))

\* The owner of the row a visibility request was about.
ToggleOwner(r) ==
    IF r.op = "file_toggle_visibility" THEN files[r.target].owner
    ELSE folders[r.target].owner

\* C2: a visibility toggle of an existing file or folder answers 403 exactly
\* when the actor is neither staff nor the owner (who must be faculty to make
\* the item public), and a refused toggle changes no folder and no file.
C2_VisibilityPermission ==
    [][(last'.op \in {"file_toggle_visibility", "folder_toggle_visibility"}
            /\ last'.status # 404) =>
          /\ (last'.status = 403) <=>
                ~VisibilityPermitted(last'.actor, ToggleOwner(last'), last'.is_public)
          /\ (last'.status = 403) => UNCHANGED <<folders, files>>]_vars

\* The owner, a student, is refused when making the folder public, and the
\* folder and a file below it are still private.
C2_Witness ==
    /\ last.op = "folder_toggle_visibility"
    /\ last.status = 403
    /\ last.is_public
    /\ last.actor = "student"
    /\ folders[last.target].owner = "student"
    /\ ~folders[last.target].is_public
    /\ \E x \in SubtreeFiles(folders, files, last.target) : ~files[x].is_public

\* C3: after a successful folder soft delete every folder and file of the
\* subtree is deleted; after a successful folder restore every folder and
\* file of the subtree has is_deleted, deleted_at and deleted_by cleared.
C3_DeleteThenRestore ==
    /\ (last.op = "folder_destroy" /\ last.status = 204) =>
          /\ \A g \in Subtree(folders, last.target) : folders[g].is_deleted
          /\ \A x \in SubtreeFiles(folders, files, last.target) : files[x].is_deleted
    /\ (last.op = "admin_restore_folder" /\ last.status = 200) =>
          /\ \A g \in Subtree(folders, last.target) :
                /\ ~folders[g].is_deleted
                /\ folders[g].deleted_at = NoTime
                /\ folders[g].deleted_by = NoUser
          /\ \A x \in SubtreeFiles(folders, files, last.target) :
                /\ ~files[x].is_deleted
                /\ files[x].deleted_at = NoTime
                /\ files[x].deleted_by = NoUser

\* A folder restored together with a folder below it and a file that its
\* owner had deleted on its own (the log holds that delete).
C3_Witness ==
    /\ last.op = "admin_restore_folder"
    /\ last.status = 200
    /\ \E g \in FolderIds, x \in FileIds :
          /\ folders[g].exists /\ folders[g].parent = last.target
          /\ files[x].exists /\ files[x].folder = g
          /\ ~files[x].is_deleted
          /\ AuditRow(x, files[x].owner, "delete") \in audit

\* The visibility the claim gives a new row: the parent's is_public, and at
\* the root the requested value for staff and faculty only.
ExpectedVisibility(actor, parent, requested) ==
    IF parent # NoId THEN folders[parent].is_public
    ELSE (requested /\ (IsStaff(actor) \/ IsFaculty(actor)))

\* C9: a folder or file created under a parent folder takes the parent's
\* is_public; one created at the root is public only when the request asked
\* for it and the actor is staff or faculty.
C9_CreationVisibility ==
    /\ (last.op = "folder_create" /\ last.status = 201) =>
          folders[last.target].is_public =
              ExpectedVisibility(last.actor, folders[last.target].parent, last.is_public)
    /\ (last.op = "file_upload" /\ last.status = 201) =>
          files[last.target].is_public =
              ExpectedVisibility(last.actor, files[last.target].folder, last.is_public)

\* A student asks for a private folder under a public parent and gets a
\* public one.
C9_Witness ==
    /\ last.op = "folder_create"
    /\ last.status = 201
    /\ last.actor = "student"
    /\ ~last.is_public
    /\ folders[last.target].parent # NoId
    /\ folders[last.target].is_public


\* The validity the claim states: active, not at or past its expiry, and
\* below its download limit when it has one.
ValidAsClaimed(l, t) ==
    ~(\/ ~l.is_active
      \/ (l.expires_at # NoTime /\ t >= l.expires_at)
      \/ (l.max_downloads # NoCount /\ l.download_count >= l.max_downloads))

\* C4: is_valid is false exactly when the link is not active, or now is at
\* or past its expiry, or it has a download limit (0 included) that its
\* download count has reached.
C4_ValidityAsClaimed ==
    \A pk \in LinkIds :
        links[pk].exists => (IsValid(links[pk], now) = ValidAsClaimed(links[pk], now))

\* The link has a download limit of at least one.
Limited(l) == l.max_downloads # NoCount /\ l.max_downloads >= 1

\* The link is active and now is before its expiry, if it has one.
ActiveUnexpired(l, t) == l.is_active /\ (l.expires_at = NoTime \/ t < l.expires_at)

Exhausted(l) ==
    l.max_downloads # NoCount /\ l.max_downloads # 0
        /\ l.download_count >= l.max_downloads

EmailMatches(requester, l) ==
    /\ IsAuthenticated(requester)
    /\ l.email # NoEmail
    /\ Lower(EmailOf(requester)) = Lower(l.email)

\* C8: a resolve of a valid email link succeeds only for a logged-in
\* requester whose email equals link.email without regard to case; every
\* other requester, also when link.email is unset, is refused as forbidden
\* (403 from the API) with no content.
C8_EmailLink ==
    [][(/\ last'.op \in Resolvers
        /\ links[last'.target].exists
        /\ links[last'.target].share_type = "email"
        /\ IsValid(links[last'.target], now)) =>
          LET l == links[last'.target] IN
          /\ (last'.outcome = "ok") => EmailMatches(last'.actor, l)
          /\ ~EmailMatches(last'.actor, l) =>
                /\ last'.outcome = "forbidden"
                /\ last'.content = NoContent
                /\ (last'.op = "share_resolve" => last'.status = 403)]_vars

\* C10: at most one session is active in every state, and after a
\* successful admin_session_activate its target is the only active session.
C10_AtMostOneActive ==
    /\ Cardinality(ActiveSessions) <= 1
    /\ (last.op = "admin_session_activate" /\ last.status = 200) =>
          ActiveSessions = {last.target}

\* The link points at the folder f, at a folder below it or at a file in one
\* of them.
PointsInto(l, f) ==
    \/ (l.folder # NoId /\ l.folder \in Subtree(folders, f))
    \/ (l.file_item # NoId /\ l.file_item \in SubtreeFiles(folders, files, f))

\* C11: after a successful folder soft delete no link that points at the
\* folder, at a folder below it or at a file of the subtree is active.
C11_SubtreeLinksRevoked ==
    (last.op = "folder_destroy" /\ last.status = 204) =>
        \A pk \in LinkIds :
            (links[pk].exists /\ PointsInto(links[pk], last.target)) =>
                ~links[pk].is_active

C13_PurgeLeavesNothing ==
    [][(last'.op = "admin_purge_folder" /\ last'.status = 200) =>
          /\ \A g \in Subtree(folders, last'.target) : ~folders'[g].exists
          /\ \A x \in SubtreeFiles(folders, files, last'.target) :
                ~files'[x].exists /\ ~files'[x].blob]_vars

\* C14: the audit log only grows: no step of the application removes or
\* changes an entry that was recorded.
C14_AuditAppendOnly == [][audit \subseteq audit']_vars

\* C15: setting the visibility of a folder is idempotent: calling it a second
\* time with the same value on the state the first call left changes no
\* folder and no file (the operation writes no share link).
C15_SetVisibilityIdempotent ==
    (last.op = "folder_toggle_visibility" /\ last.status = 200) =>
        LET again == SetFolderVisibilityRecursive(folders, files, last.target,
                                                  last.is_public, RecursionLimit)
        IN /\ FolderVisibilityAllowed(last.actor, folders[last.target].owner,
                                      last.is_public)
           /\ again.ok
           /\ again.folders = folders
           /\ again.files = files

\* A successful call that changed a folder with a file in it and a folder
\* below it.
C15_Witness ==
    /\ last.op = "folder_toggle_visibility" /\ last.status = 200
    /\ last.is_public
    /\ \E x \in FileIds : files[x].exists /\ files[x].folder = last.target
    /\ \E g \in FolderIds : folders[g].exists /\ folders[g].parent = last.target

\* C16: every share link has exactly one of file_item and folder set; a
\* create request that names neither or both is refused with a validation
\* error and creates no link; a create request that succeeds adds one link,
\* and that link is active.
C16_ExactlyOneTarget ==
    /\ [](\A l \in LinkIds :
             links[l].exists => ((links[l].file_item # NoId) # (links[l].folder # NoId)))
    /\ [][last'.op = "share_create" =>
             /\ ((last'.file_item # NoId) = (last'.folder # NoId)) =>
                    (last'.status = 400 /\ UNCHANGED links)
             /\ last'.status # 201 => UNCHANGED links
             /\ last'.status = 201 =>
                    /\ ~links[last'.target].exists
                    /\ links'[last'.target].exists
                    /\ links'[last'.target].is_active
                    /\ links'[last'.target].file_item = last'.file_item
                    /\ links'[last'.target].folder = last'.folder
                    /\ \A l \in LinkIds \ {last'.target} : links'[l] = links[l]]_vars

\* A request naming both a file and a folder, each of them there, was
\* refused after a folder link had been created.
C16_Witness ==
    /\ last.op = "share_create" /\ last.status = 400
    /\ last.file_item # NoId /\ last.folder # NoId
    /\ files[last.file_item].exists /\ folders[last.folder].exists
    /\ \E l \in LinkIds : links[l].exists /\ links[l].folder # NoId /\ links[l].is_active

\* C18: every successful resolve, of a file link or of a folder link and
\* through either resolver, raises the link's download_count by exactly one.
C18_EachSuccessCounts ==
    [][(last'.op \in Resolvers /\ last'.outcome = "ok") =>
          links'[last'.target].download_count =
              links[last'.target].download_count + 1]_vars

\* The expiry date of the link lies before the time t.
Expired(l, t) == l.expires_at # NoTime /\ l.expires_at < t

Successes(pk) ==
    {p \in ProcIds : procs[p].pc = "done" /\ procs[p].target = pk
                     /\ procs[p].outcome = "ok"}

\* C19: however the requests to one link with max_downloads = n interleave,
\* no more than n of them succeed, and once none is under way the link's
\* download_count is the number of those that succeeded.
C19_LimitUnderConcurrency ==
    \A pk \in LinkIds :
        (links[pk].exists /\ links[pk].max_downloads >= 1) =>
            /\ Cardinality(Successes(pk)) <= links[pk].max_downloads
            /\ (\A p \in ProcIds : procs[p].pc # "read") =>
                   links[pk].download_count = Cardinality(Successes(pk))

\* C20: however a soft delete of a folder F and a change of F's visibility to
\* v interleave, once both have completed every folder and every file of the
\* subtree of F is deleted and has is_public = v.
C20_DeleteAndVisibilityCommute ==
    \A p, q \in ProcIds :
        (/\ procs[p].pc = "done" /\ procs[p].outcome = "ok"
         /\ procs[p].op = "folder_destroy"
         /\ procs[q].pc = "done" /\ procs[q].outcome = "ok"
         /\ procs[q].op = "folder_toggle_visibility"
         /\ procs[q].target = procs[p].target) =>
            /\ \A g \in Subtree(folders, procs[p].target) :
                   folders[g].is_deleted /\ folders[g].is_public = procs[q].is_public
            /\ \A x \in SubtreeFiles(folders, files, procs[p].target) :
                   files[x].is_deleted /\ files[x].is_public = procs[q].is_public

\* The walk from the root yields every folder reachable from it, each once.
EachOnce(fs, root) ==
    LET w == Walk(fs, root) IN
    /\ SeqRange(w) = Subtree(fs, root)
    /\ Len(w) = Cardinality(SeqRange(w))

\* A step of soft delete or restore has written every folder reachable from
\* the root and no other.
DeleteAndRestoreWalked ==
    /\ (last'.op = "folder_destroy" /\ last'.status = 204) =>
           /\ EachOnce(folders, last'.target)
           /\ \A g \in FolderIds :
                 IF g \in Subtree(folders, last'.target)
                 THEN folders'[g].is_deleted
                 ELSE folders'[g] = folders[g]
    /\ (last'.op = "admin_restore_folder" /\ last'.status = 200) =>
           /\ EachOnce(folders, last'.target)
           /\ \A g \in FolderIds :
                 IF g \in Subtree(folders, last'.target)
                 THEN ~folders'[g].is_deleted
                 ELSE folders'[g] = folders[g]

\* A purge of a folder that is there completes, and has removed every folder
\* reachable from the root and no other.
PurgeWalked ==
    (last'.op = "admin_purge_folder" /\ folders[last'.target].exists) =>
        /\ last'.status = 200
        /\ \A g \in FolderIds :
              IF g \in Subtree(folders, last'.target)
              THEN ~folders'[g].exists
              ELSE folders'[g] = folders[g]

WalksOfDeleteAndRestore == [][DeleteAndRestoreWalked]_vars

\* C21: the walks of soft delete, restore and purge end on every set of
\* folder rows, one with a parent cycle included, and process every folder
\* reachable from the root exactly once.
C21_WalksProcessReachableOnce == [][DeleteAndRestoreWalked /\ PurgeWalked]_vars

\* C22: the visibility cascade ends and is right on every folder graph the
\* program's own requests produce, a parent cycle made through the update
\* endpoint included: a permitted request on a folder that is there is
\* answered 200, and every folder and file reachable from it has the value.
C22_CascadeEndsOnCycles ==
    (last.op = "folder_toggle_visibility" /\ last.status \notin {403, 404}) =>
        /\ last.status = 200
        /\ \A g \in Subtree(folders, last.target) : folders[g].is_public = last.is_public
        /\ \A x \in SubtreeFiles(folders, files, last.target) :
              files[x].is_public = last.is_public

\* The writes a failed walk had made: the first k of its order.
Written(w, k) == {w[i] : i \in 1..k}

\* C23: a cascade or walk that fails after k of its writes is not taken
\* back: the caller is answered with an error, the rows of the first k
\* writes have the new value and every other row is as it was.
C23_PartialWalkKept ==
    [][(last'.status = 500 /\ last'.op \in {"folder_toggle_visibility",
                                            "folder_destroy", "admin_restore_folder"}) =>
          LET t == last'.target
              k == last'.written
              w == IF last'.op = "folder_toggle_visibility"
                   THEN VisibilityWrites(folders, files, t, RecursionLimit)
                   ELSE WalkWrites(folders, t)
              done == Written(w, k)
          IN /\ k < Len(w)
             /\ \A g \in FolderIds :
                   IF <<"folder", g>> \in done
                   THEN CASE last'.op = "folder_toggle_visibility" ->
                                 folders'[g] = [folders[g] EXCEPT
                                                    !.is_public = last'.is_public]
                          [] last'.op = "folder_destroy" ->
                                 folders'[g].is_deleted
                                 /\ folders'[g].deleted_by = last'.actor
                          [] OTHER -> ~folders'[g].is_deleted
                   ELSE folders'[g] = folders[g]
             /\ \A x \in FileIds :
                   IF <<"file", x>> \in done
                   THEN files'[x] = [files[x] EXCEPT !.is_public = last'.is_public]
                   ELSE IF files[x].exists /\ <<"files", files[x].folder>> \in done
                   THEN files'[x].is_deleted = (last'.op = "folder_destroy")
                   ELSE files'[x] = files[x]]_vars

\* A cascade failed after it had made the folder public and before it came
\* to a file below it; a soft delete failed with the folder deleted and a
\* folder below it not.
C23_Witness ==
    /\ last.status = 500
    /\ last.written >= 1
    /\ \/ /\ last.op = "folder_toggle_visibility"
          /\ last.is_public /\ folders[last.target].is_public
          /\ \E x \in SubtreeFiles(folders, files, last.target) : ~files[x].is_public
       \/ /\ last.op = "folder_destroy"
          /\ folders[last.target].is_deleted
          /\ \E g \in Subtree(folders, last.target) : ~folders[g].is_deleted

\* C24: a successful resolve of a folder link, through either resolver,
\* discloses every folder and every file under the shared root at every
\* depth, whatever their attributes; so both resolvers disclose the same.
C24_FolderLinkDisclosesAll ==
    (/\ last.op \in Resolvers /\ last.outcome = "ok"
     /\ links[last.target].exists /\ links[last.target].folder # NoId) =>
        LET root == links[last.target].folder IN
        last.content = {<<"folder", g>> : g \in Subtree(folders, root)}
                       \cup {<<"file", x>> : x \in SubtreeFiles(folders, files, root)}

\* C25: a failing audit-log write never reaches the caller: the request is
\* answered with its usual success status and its own change is kept.
C25_AuditFailureSwallowed ==
    ("audit_failed" \in DOMAIN last) =>
        /\ last.op = "file_destroy" => (last.status = 204 /\ files[last.target].is_deleted)
        /\ last.op = "share_create" => (last.status = 201 /\ links[last.target].exists)
        /\ last.op = "share_resolve" =>
               (last.status = 200 /\ links[last.target].download_count > 0)

\* C26: whatever the endpoint, a request of a user who is neither staff nor
\* faculty makes no row public that was private, and a request of a user
\* who is not staff changes is_public of no row that the user does not own.
C26_VisibilityGuardedEverywhere ==
    [][/\ \A g \in FolderIds :
             (folders[g].exists /\ folders'[g].exists
              /\ folders'[g].is_public # folders[g].is_public) =>
                 /\ folders'[g].is_public =>
                        (IsStaff(last'.actor) \/ IsFaculty(last'.actor))
                 /\ IsStaff(last'.actor) \/ folders[g].owner = last'.actor
       /\ \A x \in FileIds :
             (files[x].exists /\ files'[x].exists
              /\ files'[x].is_public # files[x].is_public) =>
                 /\ files'[x].is_public =>
                        (IsStaff(last'.actor) \/ IsFaculty(last'.actor))
                 /\ IsStaff(last'.actor) \/ files[x].owner = last'.actor]_vars

\* C27: no successful resolve, through either resolver, returns a file that
\* is soft-deleted, whether the link was created before the delete of the
\* file or of a folder around it, or on a file deleted already.
C27_NoDeletedFileResolved ==
    (last.op \in Resolvers /\ last.outcome = "ok") =>
        \A x \in FileIds : <<"file", x>> \in last.content => ~files[x].is_deleted

\* C28: when admin_user_update answers 403 the target's is_staff,
\* is_superuser and profile are as they were before the request; and
\* is_faculty of a user goes from false to true only in a request made by a
\* superuser.
C28_UserUpdateAllOrNothing ==
    [][/\ (last'.op = "admin_user_update" /\ last'.status = 403) => UNCHANGED users
       /\ \A u \in UserNames :
             (~users[u].is_faculty /\ users'[u].is_faculty) => IsSuperuser(last'.actor)
      ]_vars

\* The folders above a row, by its parent column (NoId ends the chain).
RECURSIVE AncestorsFrom(_, _, _)
AncestorsFrom(fs, f, n) ==
    IF f = NoId \/ n = 0 THEN {} ELSE {f} \cup AncestorsFrom(fs, fs[f].parent, n - 1)

PublicAndLive(row) == row.exists /\ row.is_public /\ ~row.is_deleted

\* C29: every folder and file public_folder_tree returns is public and not
\* deleted, and so is every folder above it.
C29_PublicTreeShowsOnlyPublicLive ==
    last.op = "public_folder_tree" =>
        \A c \in last.content :
            /\ c[1] = "folder" =>
                  \A a \in AncestorsFrom(folders, c[2], MaxFolders) : PublicAndLive(folders[a])
            /\ c[1] = "file" =>
                  /\ PublicAndLive(files[c[2]])
                  /\ \A a \in AncestorsFrom(folders, files[c[2]].folder, MaxFolders) :
                        PublicAndLive(folders[a])

\* The tree shows a folder while a public live file lies in a private
\* folder below it.
C29_Witness ==
    /\ last.op = "public_folder_tree"
    /\ \E f \in FolderIds : <<"folder", f>> \in last.content
    /\ \E x \in FileIds :
          /\ PublicAndLive(files[x])
          /\ files[x].folder # NoId
          /\ ~folders[files[x].folder].is_public
          /\ folders[files[x].folder].parent # NoId

\* C30: a folder or file that a request of a user who is not staff creates
\* or updates is, when the request is answered, in a session that is active.
C30_NonStaffOnlyInActiveSession ==
    [][~IsStaff(last'.actor) /\ last'.status \in {200, 201} =>
          /\ last'.op \in {"folder_create", "folder_update"} =>
                sessions'[folders'[last'.target].session].is_active
          /\ last'.op \in {"file_upload", "file_update"} =>
                sessions'[files'[last'.target].session].is_active
      ]_vars

====
